---- MODULE Spec2Model ----
(***************************************************************************)
(* A model of the decryption engine (wechat_manager/core/decrypt.py) and   *)
(* of the key extraction engine (wechat_manager/core/key_extractor.py).    *)
(*                                                                         *)
(* Bytes are modelled symbolically.  A PBKDF2 output, an HMAC digest and   *)
(* an AES-CBC ciphertext are terms that record the arguments they were     *)
(* computed from; two such values are equal exactly when their arguments   *)
(* are equal (no collisions).  A page buffer records the layout it was     *)
(* written with, and slicing it at other offsets yields stray bytes that   *)
(* equal no digest.  Lengths and offsets are kept in bytes.                *)
(***************************************************************************)
EXTENDS Integers, Sequences, FiniteSets, TLC

(***************************************************************************)
(* Program constants of decrypt.py.                                        *)
(***************************************************************************)
KEY_SIZE == 32
PAGE_SIZE == 4096
KDF_ITER == 64000
HMAC_SIZE == 20
IV_SIZE == 16
RESERVED_SIZE == 48
V4_KDF_ITER == 256000
V4_HMAC_SIZE == 64
V4_RESERVED_SIZE == 80
SALT_SIZE == 16
SALT_MASK == 58

(***************************************************************************)
(* Bounds of the model.                                                    *)
(***************************************************************************)
MaxPages == 3
NumKeys == 2

SQLITE_FILE_HEADER == [kind |-> "sqlite", b |-> 83]

Min(a, b) == IF a < b THEN a ELSE b
Max(a, b) == IF a > b THEN a ELSE b

(***************************************************************************)
(* CipherProfile and the two base profiles.                                *)
(***************************************************************************)
CipherProfile(v, kh, ki, hh, hs, rs, mm, pe, km) ==
    [version |-> v, kdf_hash |-> kh, kdf_iter |-> ki, hmac_hash |-> hh,
     hmac_size |-> hs, reserved_size |-> rs, mac_key_mode |-> mm,
     page_num_endian |-> pe, kdf_mode |-> km]

PROFILE_V3 ==
    CipherProfile(3, "sha1", KDF_ITER, "sha1", HMAC_SIZE, RESERVED_SIZE,
                  "enc_key_iter2", "le", "pbkdf2")

\* a version 4 profile left with the legacy reserved region
PROFILE_V4_LEGACY_RESERVED ==
    CipherProfile(4, "sha512", V4_KDF_ITER, "sha512", V4_HMAC_SIZE,
                  RESERVED_SIZE, "passphrase", "be", "pbkdf2")

PROFILE_V4_DEFAULT ==
    CipherProfile(4, "sha512", V4_KDF_ITER, "sha512", V4_HMAC_SIZE,
                  V4_RESERVED_SIZE, "passphrase", "be", "pbkdf2")

NoProfile == [version |-> 0]

(***************************************************************************)
(* _candidate_profiles: the ordered candidates for a version hint.  The    *)
(* hint is 3, 4 or 0 (None, or any other value).                           *)
(***************************************************************************)
\* a hint-4 list whose last variation repeats the one before it
HintFourListRepeatedVariant ==
    LET base == PROFILE_V4_DEFAULT IN
    << PROFILE_V3,
       base,
       [base EXCEPT !.page_num_endian = "le"],
       [base EXCEPT !.mac_key_mode = "enc_key_iter2"],
       [base EXCEPT !.mac_key_mode = "enc_key_iter2", !.page_num_endian = "le"],
       [base EXCEPT !.kdf_mode = "raw"],
       [base EXCEPT !.kdf_mode = "raw", !.page_num_endian = "le"],
       [base EXCEPT !.kdf_mode = "raw", !.mac_key_mode = "enc_key_iter2"],
       [base EXCEPT !.kdf_mode = "raw", !.mac_key_mode = "enc_key_iter2"] >>

HintFourList ==
    LET base == PROFILE_V4_DEFAULT IN
    << PROFILE_V3,
       base,
       [base EXCEPT !.page_num_endian = "le"],
       [base EXCEPT !.mac_key_mode = "enc_key_iter2"],
       [base EXCEPT !.mac_key_mode = "enc_key_iter2", !.page_num_endian = "le"],
       [base EXCEPT !.kdf_mode = "raw"],
       [base EXCEPT !.kdf_mode = "raw", !.page_num_endian = "le"],
       [base EXCEPT !.kdf_mode = "raw", !.mac_key_mode = "enc_key_iter2"],
       [base EXCEPT !.kdf_mode = "raw", !.mac_key_mode = "enc_key_iter2",
                    !.page_num_endian = "le"] >>

\* a registry whose list for hint 4 leaves the legacy profile out
candidate_profiles_without_legacy(version_hint) ==
    IF version_hint = 3 THEN <<PROFILE_V3>>
    ELSE IF version_hint = 4 THEN Tail(HintFourList)
    ELSE <<PROFILE_V3>> \o HintFourList

candidate_profiles(version_hint) ==
    IF version_hint = 3 THEN << PROFILE_V3 >>
    ELSE IF version_hint = 4 THEN HintFourList
    ELSE << PROFILE_V3 >> \o HintFourList

Hints == {0, 3, 4}

AllProfiles == {HintFourList[i] : i \in 1..Len(HintFourList)}

(***************************************************************************)
(* Key strings.  A key string is known by its number of characters,        *)
(* whether all of them are hexadecimal digits, and the value it spells.    *)
(* bytes.fromhex raises on a non-hex character or an odd number of digits  *)
(* and otherwise yields chars / 2 bytes.                                   *)
(***************************************************************************)
KeyString(n, h, i) == [chars |-> n, hex |-> h, id |-> i]

fromhex_ok(key_hex) == key_hex.hex /\ key_hex.chars % 2 = 0

fromhex(key_hex) == [fn |-> "key", n |-> key_hex.chars \div 2, id |-> key_hex.id]

(***************************************************************************)
(* Bit-wise exclusive or of two bytes, and _mask_salt.  A salt is          *)
(* modelled by one byte value standing for its 16 bytes.                   *)
(***************************************************************************)
RECURSIVE XorBits(_, _, _)
XorBits(a, b, bits) ==
    IF bits = 0 THEN 0
    ELSE (((a % 2) + (b % 2)) % 2) + 2 * XorBits(a \div 2, b \div 2, bits - 1)

mask_salt(salt) == XorBits(salt, SALT_MASK, 8)

(***************************************************************************)
(* hashlib.pbkdf2_hmac(hash, password, salt, iterations, dklen=KEY_SIZE)   *)
(* as a term; its length is KEY_SIZE.                                      *)
(***************************************************************************)
pbkdf2_hmac(hash, pw, salt, iter) ==
    [fn |-> "pbkdf2", n |-> KEY_SIZE, hash |-> hash, pw |-> pw,
     salt |-> salt, iter |-> iter]

(***************************************************************************)
(* _derive_keys_for_profile, given the decoded key bytes: the pair         *)
(* (decrypt_key, mac_key), and the number of PBKDF2 runs it costs.         *)
(***************************************************************************)
derive_decrypt_key(key_bytes, salt, profile) ==
    IF profile.kdf_mode = "pbkdf2"
    THEN pbkdf2_hmac(profile.kdf_hash, key_bytes, salt, profile.kdf_iter)
    ELSE key_bytes

derive_mac_key(key_bytes, salt, profile) ==
    LET mac_salt == mask_salt(salt) IN
    IF profile.mac_key_mode = "passphrase"
    THEN pbkdf2_hmac(profile.kdf_hash, key_bytes, mac_salt, profile.kdf_iter)
    ELSE pbkdf2_hmac(profile.kdf_hash,
                     derive_decrypt_key(key_bytes, salt, profile), mac_salt, 2)

derive_kdf_runs(profile) == IF profile.kdf_mode = "pbkdf2" THEN 2 ELSE 1

(***************************************************************************)
(* _page_num_bytes: struct.pack of a 32-bit page number, as four bytes.    *)
(***************************************************************************)
page_num_bytes(page_number, endian) ==
    LET b0 == page_number % 256
        b1 == (page_number \div 256) % 256
        b2 == (page_number \div 65536) % 256
        b3 == (page_number \div 16777216) % 256
    IN IF endian = "be" THEN <<b3, b2, b1, b0>> ELSE <<b0, b1, b2, b3>>

(***************************************************************************)
(* hmac.new(key, digestmod).update(data).update(pn).digest() as a term of  *)
(* the digest's width.                                                     *)
(***************************************************************************)
DigestLen(hash) == IF hash = "sha1" THEN 20 ELSE 64

hmac_digest(mac_key, hash, data, pn) ==
    [t |-> [fn |-> "hmac", hash |-> hash, key |-> mac_key, data |-> data, pn |-> pn],
     n |-> DigestLen(hash)]

(***************************************************************************)
(* A page buffer: len bytes written with a reserved region of R bytes:     *)
(* ciphertext [0, len-R), IV [len-R, len-R+16), a tag of tag.n bytes and   *)
(* padding to the end.                                                     *)
(***************************************************************************)
Page(len, R, cipher, iv, tag, pad) ==
    [len |-> len, R |-> R, cipher |-> cipher, iv |-> iv, tag |-> tag, pad |-> pad]

NoBytes == [fn |-> "none"]

StrayBytes(page, from, n) == [t |-> [fn |-> "stray", at |-> from], n |-> n]

\* a prefix that stops at the end of the ciphertext
PagePrefixWithoutIv(page, data_end) ==
    [cipher |-> page.cipher, iv |-> -1, tag |-> NoBytes, end |-> data_end]

\* page_data[:data_end]
PagePrefix(page, data_end) ==
    [cipher |-> page.cipher,
     iv |-> IF data_end >= page.len - page.R + IV_SIZE THEN page.iv ELSE -1,
     tag |-> IF data_end > page.len - page.R + IV_SIZE THEN page.tag.t ELSE NoBytes,
     end |-> data_end]

\* page_data[-n:]
PageSuffix(page, n) ==
    [from |-> Max(page.len - n, 0),
     cipher |-> IF n > page.R THEN page.cipher ELSE NoBytes,
     iv |-> IF n >= page.R THEN page.iv ELSE -1,
     tag |-> page.tag, pad |-> page.pad]

(***************************************************************************)
(* _hmac_slices: (data_to_hash, expected_hmac, iv) of a page buffer under  *)
(* a profile, or None.                                                     *)
(***************************************************************************)
NoSlices == [ok |-> FALSE]

\* slices cut at the legacy offsets whatever the profile
hmac_slices_legacy_offsets(page_data, profile) ==
    LET page_len == page_data.len
        cipher_end == page_len - RESERVED_SIZE
        data_end == page_len - (RESERVED_SIZE - IV_SIZE)
        aligned == cipher_end = page_len - page_data.R
    IN IF page_len < RESERVED_SIZE THEN NoSlices
       ELSE [ok |-> TRUE,
             data_to_hash |-> PagePrefix(page_data, data_end),
             expected_hmac |->
                 IF aligned /\ page_data.tag.n = HMAC_SIZE
                 THEN page_data.tag
                 ELSE StrayBytes(page_data, data_end, HMAC_SIZE),
             iv |-> IF aligned THEN page_data.iv ELSE -1]

hmac_slices(page_data, profile) ==
    LET page_len == page_data.len
        cipher_end == page_len - profile.reserved_size
        trail_size == profile.reserved_size - IV_SIZE
        data_end == page_len - trail_size
        iv_len == Min(IV_SIZE, page_len - cipher_end)
        hmac_len == Min(profile.hmac_size, page_len - data_end)
        aligned == cipher_end = page_len - page_data.R
    IN IF page_len < profile.reserved_size THEN NoSlices
       ELSE IF profile.reserved_size <= IV_SIZE THEN NoSlices
       ELSE IF iv_len # IV_SIZE THEN NoSlices
       ELSE IF hmac_len # profile.hmac_size THEN NoSlices
       ELSE [ok |-> TRUE,
             data_to_hash |-> PagePrefix(page_data, data_end),
             expected_hmac |->
                 IF aligned /\ page_data.tag.n = profile.hmac_size
                 THEN page_data.tag
                 ELSE StrayBytes(page_data, data_end, profile.hmac_size),
             iv |-> IF aligned THEN page_data.iv ELSE -1]

(***************************************************************************)
(* _verify_hmac_for_profile.                                               *)
(***************************************************************************)
verify_hmac_for_profile(mac_key, page_data, page_number, profile) ==
    LET slices == hmac_slices(page_data, profile) IN
    IF ~slices.ok THEN FALSE
    ELSE LET full == hmac_digest(mac_key, profile.hmac_hash, slices.data_to_hash,
                                 page_num_bytes(page_number, profile.page_num_endian))
             digest == IF full.n # profile.hmac_size
                       THEN [t |-> full.t, n |-> Min(full.n, profile.hmac_size)]
                       ELSE full
         IN digest = slices.expected_hmac

(***************************************************************************)
(* AES-256-CBC.  A ciphertext is a term naming the key, IV and plaintext   *)
(* it was made from; decrypting with that key and IV gives the plaintext   *)
(* back, and anything else gives garbage of the same length.               *)
(* AES.new raises ValueError for a key that is not 16, 24 or 32 bytes.     *)
(***************************************************************************)
aes_encrypt(key, iv, plain) == [fn |-> "aes", key |-> key, iv |-> iv, plain |-> plain]

aes_key_ok(key) == key.n \in {16, 24, 32}

aes_decrypt(key, iv, ciphertext, n) ==
    IF ciphertext.fn = "aes" /\ ciphertext.key = key /\ ciphertext.iv = iv
    THEN [fn |-> "plain", id |-> ciphertext.plain, n |-> n]
    ELSE [fn |-> "garbage", id |-> 0, n |-> n]

(***************************************************************************)
(* _decrypt_page_for_profile: the plaintext, or the exception raised.      *)
(***************************************************************************)
Exception(type, msg) == [type |-> type, msg |-> msg]

NoExc == Exception("none", "")

decrypt_page_for_profile(decrypt_key, page_data, profile) ==
    LET slices == hmac_slices(page_data, profile)
        cipher_end == page_data.len - profile.reserved_size
        aligned == cipher_end = page_data.len - page_data.R
    IN IF ~slices.ok
       THEN [exc |-> Exception("DecryptionError", "invalid_page_layout")]
       ELSE IF cipher_end % 16 # 0
       THEN [exc |-> Exception("DecryptionError", "ciphertext_not_multiple_of_16")]
       ELSE IF ~aes_key_ok(decrypt_key)
       THEN [exc |-> Exception("ValueError", "aes_key_length")]
       ELSE [exc |-> NoExc,
             plain |-> IF aligned
                       THEN aes_decrypt(decrypt_key, slices.iv, page_data.cipher, cipher_end)
                       ELSE [fn |-> "garbage", id |-> 0, n |-> cipher_end]]

(***************************************************************************)
(* File contents.  An encrypted file is its first 16 bytes (the salt),     *)
(* its full pages (the first one 16 bytes short) and the number of bytes   *)
(* of a trailing partial chunk.  A file of fewer than PAGE_SIZE bytes has  *)
(* no page, only a tail.                                                   *)
(***************************************************************************)
EncFile(salt, pages, tail) ==
    [head |-> [kind |-> "salt", b |-> salt], pages |-> pages, tail |-> tail]

DataLen(data) ==
    (IF Len(data.pages) > 0 THEN PAGE_SIZE * Len(data.pages) ELSE 0) + data.tail

JunkPage(len) ==
    Page(len, RESERVED_SIZE, [fn |-> "junk"], 0,
         [t |-> [fn |-> "junk"], n |-> HMAC_SIZE], 0)

\* a prefix that stops after the first page whatever n is
DataFirstPageOnly(data, n) ==
    IF DataLen(data) <= PAGE_SIZE THEN data
    ELSE [data EXCEPT !.pages = SubSeq(data.pages, 1, 1), !.tail = 0]

\* encrypted_data[: n], n a multiple of PAGE_SIZE
DataPrefix(data, n) ==
    IF DataLen(data) <= n THEN data
    ELSE [data EXCEPT !.pages = SubSeq(data.pages, 1, n \div PAGE_SIZE), !.tail = 0]

\* encrypted_data[offset : offset + PAGE_SIZE], offset a multiple of PAGE_SIZE
\* below the length (the first chunk without its salt)
DataChunk(data, offset) ==
    LET i == offset \div PAGE_SIZE + 1 IN
    IF i <= Len(data.pages) THEN data.pages[i]
    ELSE JunkPage(Min(PAGE_SIZE, DataLen(data) - offset))

(***************************************************************************)
(* _select_profile, computed candidate by candidate.  Besides the profile  *)
(* (NoProfile for None) the result records the candidates tried, the       *)
(* successful tag verifications and the numbers of PBKDF2 and HMAC runs.   *)
(***************************************************************************)
\* a negotiator that never looks at the second page
page2_ignored(page2) == FALSE

\* page2 is not None and len(page2) == PAGE_SIZE
has_page2(page2) == page2.len = PAGE_SIZE

Verification(profile, mac_key, pn) == [profile |-> profile, mac_key |-> mac_key, pn |-> pn]

RECURSIVE select_loop(_, _, _, _, _, _)
select_loop(key_hex, salt, page1, page2, cands, acc) ==
    LET i == Len(acc.tried) + 1 IN
    IF i > Len(cands) THEN acc
    ELSE
      LET profile == cands[i]
          tried == Append(acc.tried, i)
      IN IF ~fromhex_ok(key_hex)
         THEN \* bytes.fromhex raises; except Exception: continue
              select_loop(key_hex, salt, page1, page2, cands, [acc EXCEPT !.tried = tried])
         ELSE
           LET mac_key == derive_mac_key(fromhex(key_hex), salt, profile)
               kdf == acc.kdf + derive_kdf_runs(profile)
               ok1 == verify_hmac_for_profile(mac_key, page1, 1, profile)
               has2 == has_page2(page2)
               ok2 == has2 /\ verify_hmac_for_profile(mac_key, page2, 2, profile)
           IN IF ~ok1
              THEN select_loop(key_hex, salt, page1, page2, cands,
                       [acc EXCEPT !.tried = tried, !.kdf = kdf, !.hmac = acc.hmac + 1])
              ELSE IF has2 /\ ~ok2
              THEN select_loop(key_hex, salt, page1, page2, cands,
                       [acc EXCEPT !.tried = tried, !.kdf = kdf, !.hmac = acc.hmac + 2,
                                   !.verified = acc.verified
                                        \cup {Verification(profile, mac_key, 1)}])
              ELSE [profile |-> profile, tried |-> tried, kdf |-> kdf,
                    hmac |-> acc.hmac + (IF has2 THEN 2 ELSE 1),
                    verified |-> acc.verified
                        \cup {Verification(profile, mac_key, 1)}
                        \cup (IF has2 THEN {Verification(profile, mac_key, 2)} ELSE {})]

NoPage == JunkPage(0)

select_profile(key_hex, encrypted_data, version_hint) ==
    LET none == [profile |-> NoProfile, tried |-> <<>>, kdf |-> 0, hmac |-> 0,
                 verified |-> {}]
    IN IF DataLen(encrypted_data) < PAGE_SIZE THEN none
       ELSE LET salt == encrypted_data.head.b
                page1 == encrypted_data.pages[1]
                page2 == IF DataLen(encrypted_data) >= PAGE_SIZE * 2
                         THEN encrypted_data.pages[2] ELSE NoPage
            IN select_loop(key_hex, salt, page1, page2,
                           candidate_profiles(version_hint), none)

(***************************************************************************)
(* The files and keys the calls are made with.  A file is built the way    *)
(* the client writes it: each page's body encrypted under the profile's    *)
(* decryption key and the page's IV, the tag computed over body and IV     *)
(* and the page number, and then possibly damaged.                         *)
(***************************************************************************)
JunkTag(n) == [t |-> [fn |-> "junk"], n |-> n]

BuildPage(profile, key_bytes, salt, pn, len) ==
    LET dk == derive_decrypt_key(key_bytes, salt, profile)
        mk == derive_mac_key(key_bytes, salt, profile)
        p0 == Page(len, profile.reserved_size, aes_encrypt(dk, pn, pn), pn,
                   JunkTag(profile.hmac_size), 0)
        data_end == len - (profile.reserved_size - IV_SIZE)
    IN [p0 EXCEPT !.tag = hmac_digest(mk, profile.hmac_hash, PagePrefix(p0, data_end),
                                      page_num_bytes(pn, profile.page_num_endian))]

PageLen(pn) == IF pn = 1 THEN PAGE_SIZE - SALT_SIZE ELSE PAGE_SIZE

Tampers == {"none", "tag1", "tag2", "tag3", "pn2", "cipher3"}

Tamper(pages, kind, profile, key_bytes, salt) ==
    [i \in 1..Len(pages) |->
        IF (kind = "tag1" /\ i = 1) \/ (kind = "tag2" /\ i = 2) \/ (kind = "tag3" /\ i = 3)
        THEN [pages[i] EXCEPT !.tag = JunkTag(profile.hmac_size)]
        ELSE IF kind = "pn2" /\ i = 2
        THEN BuildPage(profile, key_bytes, salt, 3, PageLen(i))
        ELSE IF kind = "cipher3" /\ i = 3
        THEN [pages[i] EXCEPT !.cipher = [fn |-> "junk"]]
        ELSE pages[i]]

BuildFile(profile, key_bytes, salt, npages, tail, kind) ==
    EncFile(salt,
            Tamper([i \in 1..npages |-> BuildPage(profile, key_bytes, salt, i, PageLen(i))],
                   kind, profile, key_bytes, salt),
            tail)

KeyBytes(n, i) == [fn |-> "key", n |-> n, id |-> i]

TailLens == {0, 1, PAGE_SIZE - 1}

RawIter2 == HintFourList[8]

Files ==
    {BuildFile(p, KeyBytes(KEY_SIZE, 1), 0, n, 0, "none") :
        p \in AllProfiles, n \in 1..MaxPages}
    \cup {BuildFile(PROFILE_V3, KeyBytes(KEY_SIZE, 1), 0, n, t, "none") :
        n \in 0..MaxPages, t \in TailLens}
    \cup {BuildFile(p, KeyBytes(KEY_SIZE, 1), 0, MaxPages, 0, k) :
        p \in {PROFILE_V3, PROFILE_V4_DEFAULT}, k \in Tampers}
    \cup {BuildFile(PROFILE_V3, KeyBytes(16, 1), 0, 2, 0, "none"),
          BuildFile(RawIter2, KeyBytes(31, 1), 0, 2, 0, "none")}

Missing == [head |-> [kind |-> "missing", b |-> 0], pages |-> <<>>, tail |-> 0]

KeyStrings ==
    {KeyString(2 * KEY_SIZE, TRUE, i) : i \in 1..NumKeys}
    \cup {KeyString(2 * KEY_SIZE, FALSE, 1), KeyString(2 * KEY_SIZE - 1, TRUE, 1),
          KeyString(2 * KEY_SIZE - 2, TRUE, 1), KeyString(KEY_SIZE, TRUE, 1)}

(***************************************************************************)
(* The file system as decrypt_database sees it: the caller's output path   *)
(* and the temporary file of tempfile.mkstemp.  A file's content is the    *)
(* sequence of pieces written to it.                                       *)
(***************************************************************************)
Absent == [exists |-> FALSE, data |-> <<>>]
Created == [exists |-> TRUE, data |-> <<>>]
OldContent == [exists |-> TRUE, data |-> <<[kind |-> "old", v |-> NoBytes, n |-> 100]>>]

Piece(kind, v, n) == [kind |-> kind, v |-> v, n |-> n]

RECURSIVE SumLen(_)
SumLen(pieces) ==
    IF pieces = <<>> THEN 0 ELSE Head(pieces).n + SumLen(Tail(pieces))

(***************************************************************************)
(* is_encrypted_database: the first 16 bytes are read and compared with    *)
(* the SQLite header; a file that cannot be opened is not encrypted.       *)
(***************************************************************************)
FirstBytes(f, n) ==
    IF f.data # <<>> /\ f.data[1].n >= n
    THEN [v |-> f.data[1].v, n |-> n]
    ELSE [v |-> NoBytes, n |-> Min(SumLen(f.data), n)]

\* a check that takes a file it could not open for an encrypted one
is_encrypted_unless_header_read(f) ==
    IF ~f.exists THEN TRUE
    ELSE LET header == FirstBytes(f, SALT_SIZE) IN
         ~(header.n >= SALT_SIZE /\ header.v = SQLITE_FILE_HEADER)

is_encrypted_database(f) ==
    IF ~f.exists THEN FALSE
    ELSE LET header == FirstBytes(f, SALT_SIZE) IN
         ~(header.n >= SALT_SIZE /\ header.v = SQLITE_FILE_HEADER)

VARIABLES
    pc,              \* where decrypt_database stands
    args,            \* key_hex, encrypted_path (the file there), version_hint, and
                     \* out: no output_path, a new one, or an existing file's
    output_path,     \* "none", "caller" or "temp"
    fs,              \* the caller's output file and the temporary file
    encrypted_data,  \* the bytes read
    profile,         \* the selected profile
    keys,            \* decrypt_key, mac_key
    offset,          \* the page loop's offset
    page_number,     \* the page loop's counter
    exc,             \* the exception raised, NoExc if none
    result,          \* the path returned
    tried,           \* candidate indexes _select_profile tried
    verified,        \* the tag verifications that succeeded
    emitted,         \* the pages whose plaintext was written
    kdf_runs,        \* PBKDF2 computations so far
    hmac_runs,       \* HMAC computations so far
    aes_runs         \* AES computations so far

dvars == <<pc, args, output_path, fs, encrypted_data, profile, keys, offset,
           page_number, exc, result, tried, verified, emitted, kdf_runs,
           hmac_runs, aes_runs>>

VARIABLES
    xpc,                  \* where extract_key_from_memory stands
    xenv,                 \* the process table and the database path given
    candidates,           \* (pid, name) pairs to attach to
    validate_cb,          \* whether a validator was built
    ci,                   \* index of the candidate process in turn
    pm,                   \* the attached handle (0 for None)
    modules_to_scan,
    seen_bases,
    found_named_module,
    saw_supported_module,
    di,                   \* index of the module name in turn
    mi,                   \* index of the module to scan in turn
    last_error,
    xafter,               \* what follows the finally clause
    xresult,              \* the key returned
    xexc,                 \* the exception raised
    opened,               \* handles attached, in order
    close_log,            \* handles close_process was called on, in order
    xops,                 \* kinds of operation on the target performed so far
    validated             \* the key bytes the validator accepted

xvars == <<xpc, xenv, candidates, validate_cb, ci, pm, modules_to_scan, seen_bases,
           found_named_module, saw_supported_module, di, mi, last_error, xafter,
           xresult, xexc, opened, close_log, xops, validated>>

VARIABLES
    wpc,             \* where _extract_key_with_wx_key is
    wnow,            \* time.time(), in sleep intervals since the call
    wdeadline,       \* deadline
    last_status,     \* last_status
    cleanup_calls,   \* history: calls of lib.CleanupHook
    wafter,          \* what follows the finally clause: "return" or "raise"
    wresult,         \* the key returned
    wexc             \* the exception raised

wvars == <<wpc, wnow, wdeadline, last_status, cleanup_calls, wafter, wresult, wexc>>

VARIABLES
    fn,              \* the function last called on its own
    fargs,           \* its arguments
    fret,            \* what it returned or raised
    keyring          \* the keyring entry (SERVICE_NAME, KEY_NAME)

uvars == <<fn, fargs, fret, keyring>>

VARIABLES
    source,            \* the messages in the MSG tables of the WeChat databases
    storage,           \* the messages in the encrypted storage
    backups,           \* the backups made so far, each readable or not
    last_backup_path,  \* ModeB._last_backup_path, 0 for None
    backup_verified,   \* ModeB._backup_verified
    mcall              \* the last Mode B call: arguments, what it found, what it did

mvars == <<source, storage, backups, last_backup_path, backup_verified, mcall>>

VARIABLES
    stored_hash,       \* keyring entry app_password_hash, NoEntry when absent
    stored_salt,       \* keyring entry app_password_salt, NoEntry when absent
    established,       \* the password of the last set or change that returned True
    acall              \* the last AuthManager call: arguments, result, state before

avars == <<stored_hash, stored_salt, established, acall>>

tvars == <<wvars, uvars, mvars, avars>>

NoKeys == [decrypt_key |-> NoBytes, mac_key |-> NoBytes]
NoArgs == [key_hex |-> KeyString(0, TRUE, 0), file |-> Missing, version_hint |-> 0,
           out |-> "none"]

DInit ==
    /\ pc = "idle"
    /\ args = NoArgs
    /\ output_path = "none"
    /\ fs = [caller |-> Absent, temp |-> Absent]
    /\ encrypted_data = Missing
    /\ profile = NoProfile
    /\ keys = NoKeys
    /\ offset = 0
    /\ page_number = 0
    /\ exc = NoExc
    /\ result = "none"
    /\ tried = <<>>
    /\ verified = {}
    /\ emitted = <<>>
    /\ kdf_runs = 0
    /\ hmac_runs = 0
    /\ aes_runs = 0

(***************************************************************************)
(* decrypt_database(key_hex, encrypted_path, output_path, version_hint),   *)
(* statement by statement.                                                 *)
(***************************************************************************)
Raise(e) == pc' = "raised" /\ exc' = e

\* The call: the arguments, and whether the caller's output path exists.
Call ==
    /\ UNCHANGED <<xvars, tvars>>
    /\ pc = "idle"
    /\ \E k \in KeyStrings, f \in Files \cup {Missing}, h \in Hints,
          out \in {"none", "new", "existing"} :
          /\ args' = [key_hex |-> k, file |-> f, version_hint |-> h, out |-> out]
          /\ output_path' = IF out = "none" THEN "none" ELSE "caller"
          /\ fs' = [fs EXCEPT !.caller = IF out = "existing" THEN OldContent ELSE Absent]
    /\ pc' = "exists"
    /\ UNCHANGED <<encrypted_data, profile, keys, offset, page_number, exc, result,
                   tried, verified, emitted, kdf_runs, hmac_runs, aes_runs>>

\* if not encrypted_path.exists(): raise FileNotFoundError
CheckExists ==
    /\ UNCHANGED <<xvars, tvars>>
    /\ pc = "exists"
    /\ IF args.file = Missing
       THEN Raise(Exception("FileNotFoundError", "file_missing"))
       ELSE pc' = "read" /\ UNCHANGED exc
    /\ UNCHANGED <<args, output_path, fs, encrypted_data, profile, keys, offset,
                   page_number, result, tried, verified, emitted, kdf_runs,
                   hmac_runs, aes_runs>>

\* a size check that also turns away a file of exactly one page
file_not_above_page(data) == DataLen(data) <= PAGE_SIZE

\* len(encrypted_data) < PAGE_SIZE
file_too_small(data) == DataLen(data) < PAGE_SIZE

\* encrypted_data = f.read(); if len(encrypted_data) < PAGE_SIZE: raise
ReadInput ==
    /\ UNCHANGED <<xvars, tvars>>
    /\ pc = "read"
    /\ encrypted_data' = args.file
    /\ IF file_too_small(args.file)
       THEN Raise(Exception("DecryptionError", "file_too_small"))
       ELSE pc' = "negotiate" /\ UNCHANGED exc
    /\ UNCHANGED <<args, output_path, fs, profile, keys, offset, page_number, result,
                   tried, verified, emitted, kdf_runs, hmac_runs, aes_runs>>

\* profile = _select_profile(key_hex, encrypted_data[: PAGE_SIZE * 2], version_hint)
\* if profile is None: raise InvalidKeyError
Negotiate ==
    /\ UNCHANGED <<xvars, tvars>>
    /\ pc = "negotiate"
    /\ LET sel == select_profile(args.key_hex,
                                 DataPrefix(encrypted_data, PAGE_SIZE * 2),
                                 args.version_hint)
       IN /\ profile' = sel.profile
          /\ tried' = sel.tried
          /\ verified' = verified \cup sel.verified
          /\ kdf_runs' = kdf_runs + sel.kdf
          /\ hmac_runs' = hmac_runs + sel.hmac
          /\ IF sel.profile = NoProfile
             THEN Raise(Exception("InvalidKeyError", "hmac_verification_failed"))
             ELSE pc' = "derive" /\ UNCHANGED exc
    /\ UNCHANGED <<args, output_path, fs, encrypted_data, keys, offset, page_number,
                   result, emitted, aes_runs>>

\* decrypt_key, mac_key = _derive_keys_for_profile(key_hex, salt, profile)
\* if not _verify_hmac_for_profile(mac_key, first_page, 1, profile): raise
DeriveAndVerify ==
    /\ UNCHANGED <<xvars, tvars>>
    /\ pc = "derive"
    /\ IF ~fromhex_ok(args.key_hex)
       THEN /\ Raise(Exception("ValueError", "fromhex"))
            /\ UNCHANGED <<keys, kdf_runs, hmac_runs, verified>>
       ELSE LET salt == encrypted_data.head.b
                first_page == encrypted_data.pages[1]
                kb == fromhex(args.key_hex)
                dk == derive_decrypt_key(kb, salt, profile)
                mk == derive_mac_key(kb, salt, profile)
                ok == verify_hmac_for_profile(mk, first_page, 1, profile)
            IN /\ keys' = [decrypt_key |-> dk, mac_key |-> mk]
               /\ kdf_runs' = kdf_runs + derive_kdf_runs(profile)
               /\ hmac_runs' = hmac_runs + 1
               /\ IF ok
                  THEN /\ verified' = verified \cup {Verification(profile, mk, 1)}
                       /\ pc' = "alloc"
                       /\ UNCHANGED exc
                  ELSE /\ Raise(Exception("InvalidKeyError", "hmac_verification_failed"))
                       /\ UNCHANGED verified
    /\ UNCHANGED <<args, output_path, fs, encrypted_data, profile, offset, page_number,
                   result, tried, emitted, aes_runs>>

\* if output_path is None: fd, output_path = tempfile.mkstemp(suffix=".db")
AllocOutput ==
    /\ UNCHANGED <<xvars, tvars>>
    /\ pc = "alloc"
    /\ IF output_path = "none"
       THEN output_path' = "temp" /\ fs' = [fs EXCEPT !.temp = Created]
       ELSE UNCHANGED <<output_path, fs>>
    /\ pc' = "open"
    /\ UNCHANGED <<args, encrypted_data, profile, keys, offset, page_number, exc,
                   result, tried, verified, emitted, kdf_runs, hmac_runs, aes_runs>>

\* with open(output_path, "wb") as f:
OpenOutput ==
    /\ UNCHANGED <<xvars, tvars>>
    /\ pc = "open"
    /\ fs' = [fs EXCEPT ![output_path] = Created]
    /\ pc' = "first"
    /\ UNCHANGED <<args, output_path, encrypted_data, profile, keys, offset,
                   page_number, exc, result, tried, verified, emitted, kdf_runs,
                   hmac_runs, aes_runs>>

Emitted(pn, prof, ks) == [pn |-> pn, profile |-> prof, keys |-> ks]

\* the writes with the legacy trailer width whatever the profile
PageWritesLegacyTrailer(plain, page, prof) ==
    << Piece("body", plain, plain.n),
       Piece("trailer", PageSuffix(page, RESERVED_SIZE), Min(RESERVED_SIZE, page.len)) >>

\* the bytes f.write appends for one page: the plaintext, then page[-reserved_size:]
PageWrites(plain, page, prof) ==
    << Piece("body", plain, plain.n),
       Piece("trailer", PageSuffix(page, prof.reserved_size),
             Min(prof.reserved_size, page.len)) >>

\* decrypted_first = _decrypt_page_for_profile(...); the three writes; page_number = 2
FirstPage ==
    /\ UNCHANGED <<xvars, tvars>>
    /\ pc = "first"
    /\ LET first_page == encrypted_data.pages[1]
           d == decrypt_page_for_profile(keys.decrypt_key, first_page, profile)
       IN IF d.exc # NoExc
          THEN /\ Raise(d.exc)
               /\ UNCHANGED <<fs, offset, page_number, emitted, aes_runs>>
          ELSE /\ fs' = [fs EXCEPT ![output_path].data =
                            @ \o << Piece("header", SQLITE_FILE_HEADER, SALT_SIZE) >>
                              \o PageWrites(d.plain, first_page, profile)]
               /\ emitted' = Append(emitted, Emitted(1, profile, keys))
               /\ aes_runs' = aes_runs + 1
               /\ page_number' = 2
               /\ offset' = PAGE_SIZE
               /\ pc' = "loop"
               /\ UNCHANGED exc
    /\ UNCHANGED <<args, output_path, encrypted_data, profile, keys, result, tried,
                   verified, kdf_runs, hmac_runs>>

\* a loop that does not stop at a short last chunk
partial_page_kept(page) == FALSE

\* if len(page) < PAGE_SIZE: break
is_partial_page(page) == page.len < PAGE_SIZE

\* one iteration of: for offset in range(PAGE_SIZE, len(encrypted_data), PAGE_SIZE)
NextPage ==
    /\ UNCHANGED <<xvars, tvars>>
    /\ pc = "loop"
    /\ IF offset >= DataLen(encrypted_data)
       THEN /\ pc' = "return"
            /\ UNCHANGED <<fs, offset, page_number, emitted, aes_runs, exc>>
       ELSE LET page == DataChunk(encrypted_data, offset)
                d == decrypt_page_for_profile(keys.decrypt_key, page, profile)
            IN IF is_partial_page(page)
               THEN /\ pc' = "return"      \* break
                    /\ UNCHANGED <<fs, offset, page_number, emitted, aes_runs, exc>>
               ELSE IF d.exc # NoExc
               THEN /\ Raise(d.exc)
                    /\ UNCHANGED <<fs, offset, page_number, emitted, aes_runs>>
               ELSE /\ fs' = [fs EXCEPT ![output_path].data =
                                 @ \o PageWrites(d.plain, page, profile)]
                    /\ emitted' = Append(emitted, Emitted(page_number, profile, keys))
                    /\ aes_runs' = aes_runs + 1
                    /\ page_number' = page_number + 1
                    /\ offset' = offset + PAGE_SIZE
                    /\ pc' = "loop"
                    /\ UNCHANGED exc
    /\ UNCHANGED <<args, output_path, encrypted_data, profile, keys, result, tried,
                   verified, kdf_runs, hmac_runs>>

\* return output_path
Return ==
    /\ UNCHANGED <<xvars, tvars>>
    /\ pc = "return"
    /\ result' = output_path
    /\ pc' = "done"
    /\ UNCHANGED <<args, output_path, fs, encrypted_data, profile, keys, offset,
                   page_number, exc, tried, verified, emitted, kdf_runs, hmac_runs,
                   aes_runs>>

(***************************************************************************)
(* verify_key(key_hex, db_path, version_hint): never raises.               *)
(***************************************************************************)
verify_key(key_hex, db, version_hint) ==
    IF db = Missing THEN FALSE
    ELSE LET head == DataPrefix(db, PAGE_SIZE * 2) IN
         IF DataLen(head) < PAGE_SIZE THEN FALSE
         ELSE select_profile(key_hex, head, version_hint).profile # NoProfile

(***************************************************************************)
(* Program constants of key_extractor.py.                                  *)
(***************************************************************************)
KEY_LENGTH_HEX == 64
KEY_LENGTH_BYTES == 32

\* A pointer-sized value, kept as its bits above and below bit 24, and the
\* bounds 0x10000 and 0x7FFFFFFFFFFF of the plausible user-space range.
Ptr(hi, lo) == [hi |-> hi, lo |-> lo]

\* a comparison that admits equal addresses
PtrLessOrEqual(a, b) == a.hi < b.hi \/ (a.hi = b.hi /\ a.lo <= b.lo)

PtrLess(a, b) == a.hi < b.hi \/ (a.hi = b.hi /\ a.lo < b.lo)

PTR_LOW == Ptr(0, 65536)
PTR_HIGH == Ptr(8388607, 16777215)

WECHAT_PROCESS_STEMS_ORDERED == <<"wechat", "weixin", "wechatappex">>

WECHAT_DLL_NAMES == <<"WeChatWin.dll", "Weixin.dll", "WeChat.dll", "WeixinWin.dll">>

(***************************************************************************)
(* The process table.  A process is its pid and its name; a name is its    *)
(* text, as the system spells it, and whether ".exe" follows.              *)
(***************************************************************************)
Name(text, exe) == [text |-> text, exe |-> exe]

Proc(pid, name) == [pid |-> pid, name |-> name]

NAME_FALLBACKS ==
    << Name("WeChat", TRUE), Name("Weixin", TRUE), Name("WeChatAppEx", TRUE),
       Name("WeChatAppEx", FALSE) >>

\* str.lower() on the spellings that occur
Lower(text) ==
    CASE text = "WeChat" -> "wechat"
      [] text = "WECHAT" -> "wechat"
      [] text = "Weixin" -> "weixin"
      [] text = "WeChatAppEx" -> "wechatappex"
      [] text = "Notepad" -> "notepad"
      [] text = "WeChatHelper" -> "wechathelper"
      [] OTHER -> text

\* (name or "").strip().lower().removesuffix(".exe")
normalize_process_name(name) == Lower(name.text)

StemRank(stem) ==
    IF \E i \in 1..Len(WECHAT_PROCESS_STEMS_ORDERED) : WECHAT_PROCESS_STEMS_ORDERED[i] = stem
    THEN CHOOSE i \in 1..Len(WECHAT_PROCESS_STEMS_ORDERED) :
             WECHAT_PROCESS_STEMS_ORDERED[i] = stem
    ELSE 999

\* _get_wechat_process_candidates: the matching processes, sorted (stably)
\* by the rank of their stem
RECURSIVE FilterRank(_, _)
FilterRank(table, rank) ==
    IF table = <<>> THEN <<>>
    ELSE (IF Head(table).name.text # ""
             /\ StemRank(normalize_process_name(Head(table).name)) = rank
          THEN <<Head(table)>> ELSE <<>>) \o FilterRank(Tail(table), rank)

get_wechat_process_candidates(table) ==
    FilterRank(table, 1) \o FilterRank(table, 2) \o FilterRank(table, 3)

\* a check that any process at all satisfies
any_process_running(table) == Len(table) > 0

is_wechat_running(table) == Len(get_wechat_process_candidates(table)) > 0

ProcessTables ==
    { <<>>,
      <<Proc(7, Name("Notepad", TRUE)), Proc(8, Name("", FALSE)),
        Proc(9, Name("WeChatHelper", TRUE))>>,
      <<Proc(11, Name("WECHAT", TRUE))>>,
      <<Proc(12, Name("Weixin", TRUE)), Proc(7, Name("Notepad", TRUE)),
        Proc(11, Name("WeChat", FALSE))>>,
      <<Proc(13, Name("WeChatAppEx", TRUE)), Proc(12, Name("Weixin", TRUE))>> }

(***************************************************************************)
(* Key buffers read from the target's memory, known by what the filter     *)
(* reads of them: length, number of zero bytes, number of distinct byte    *)
(* values, and the value they hold.  A failed read is NoRead.              *)
(***************************************************************************)
Buffer(len, zeros, distinct, id) ==
    [ok |-> TRUE, len |-> len, zeros |-> zeros, distinct |-> distinct, id |-> id]

NoRead == [ok |-> FALSE, len |-> 0, zeros |-> 0, distinct |-> 0, id |-> 0]

\* key_bytes.hex()
bytes_hex(key_bytes) == KeyString(2 * key_bytes.len, TRUE, key_bytes.id)

\* the validator extract_key_from_memory builds around verify_key
validate_key_bytes(key_bytes, db) == verify_key(bytes_hex(key_bytes), db, 0)

\* a filter that asks the validator before it looks at the buffer
looks_like_key_validator_first(key_bytes, has_validator, db) ==
    LET zero_limit == IF has_validator THEN 4 ELSE 8
        accepted == ~has_validator \/ validate_key_bytes(key_bytes, db)
    IN [validated |-> has_validator,
        result |-> /\ accepted
                   /\ key_bytes.len = KEY_LENGTH_BYTES
                   /\ key_bytes.zeros # key_bytes.len
                   /\ key_bytes.zeros <= zero_limit
                   /\ key_bytes.distinct >= 16]

\* looks_like_key, inside _search_key_pattern: what it returns and whether
\* it called the validator
looks_like_key_run(key_bytes, has_validator, db) ==
    LET zero_limit == IF has_validator THEN 4 ELSE 8 IN
    IF key_bytes.len # KEY_LENGTH_BYTES THEN [validated |-> FALSE, result |-> FALSE]
    ELSE IF key_bytes.zeros = key_bytes.len THEN [validated |-> FALSE, result |-> FALSE]
    ELSE IF key_bytes.zeros > zero_limit THEN [validated |-> FALSE, result |-> FALSE]
    ELSE IF key_bytes.distinct < 16 THEN [validated |-> FALSE, result |-> FALSE]
    ELSE IF has_validator
    THEN [validated |-> TRUE, result |-> validate_key_bytes(key_bytes, db)]
    ELSE [validated |-> FALSE, result |-> TRUE]

looks_like_key(key_bytes, has_validator, db) ==
    looks_like_key_run(key_bytes, has_validator, db).result

(***************************************************************************)
(* _search_key_pattern over a memory image.  The image lists the pointer   *)
(* slots in the order the scan visits them (whether the read succeeds,     *)
(* and the value read) and maps each address to the 32 bytes there.        *)
(* The result is the address found (NullPtr for None), the buffers the     *)
(* validator accepted on the way and the addresses read_bytes was given.   *)
(***************************************************************************)
NullPtr == Ptr(0, 0)

\* pm.read_bytes(address, KEY_LENGTH_BYTES); NoRead when it raises
read_bytes(heap, address) == IF address \in DOMAIN heap THEN heap[address] ELSE NoRead

Slot(v) == [ok |-> TRUE, v |-> v]

SlotUnreadable == [ok |-> FALSE, v |-> NullPtr]

RECURSIVE search_slots(_, _, _, _, _, _)
search_slots(slots, heap, has_validator, db, accepted, reads) ==
    IF slots = <<>> THEN [addr |-> NullPtr, accepted |-> accepted, reads |-> reads]
    ELSE LET key_ptr == Head(slots).v IN
         IF ~Head(slots).ok \/ ~(PtrLess(PTR_LOW, key_ptr) /\ PtrLess(key_ptr, PTR_HIGH))
         THEN search_slots(Tail(slots), heap, has_validator, db, accepted, reads)
         ELSE LET potential_key == read_bytes(heap, key_ptr)
                  read_now == reads \cup {key_ptr}
              IN
              IF ~potential_key.ok
              THEN search_slots(Tail(slots), heap, has_validator, db, accepted, read_now)
              ELSE IF looks_like_key(potential_key, has_validator, db)
              THEN [addr |-> key_ptr,
                    accepted |-> IF has_validator THEN accepted \cup {potential_key}
                                 ELSE accepted,
                    reads |-> read_now]
              ELSE search_slots(Tail(slots), heap, has_validator, db, accepted, read_now)

search_key_pattern(image, has_validator, db) ==
    search_slots(image.slots, image.heap, has_validator, db, {}, {})

GoodKey == Buffer(KEY_LENGTH_BYTES, 0, 30, 1)
WrongKey == Buffer(KEY_LENGTH_BYTES, 1, 28, 2)
SparseKey == Buffer(KEY_LENGTH_BYTES, 6, 20, 1)
LowEntropy == Buffer(KEY_LENGTH_BYTES, 0, 8, 1)
ZeroBuf == Buffer(KEY_LENGTH_BYTES, KEY_LENGTH_BYTES, 1, 0)

AddrA == Ptr(0, 131072)
AddrB == Ptr(32, 4096)
Addresses == {AddrA, AddrB}

MemImage(slots, a, b) == [slots |-> slots, heap |-> (AddrA :> a) @@ (AddrB :> b)]

MemImages ==
    { MemImage(<<>>, NoRead, NoRead),
      MemImage(<<Slot(NullPtr), Slot(PTR_LOW), Slot(PTR_HIGH), Slot(AddrA)>>,
               GoodKey, NoRead),
      MemImage(<<Slot(AddrA)>>, WrongKey, NoRead),
      MemImage(<<SlotUnreadable, Slot(AddrB), Slot(AddrA)>>, SparseKey, LowEntropy),
      MemImage(<<Slot(AddrB), Slot(AddrA)>>, GoodKey, ZeroBuf) }

\* slot values outside the range the scan follows, and a memory that holds a
\* key wherever it is read
ImplausiblePtrs == {NullPtr, Ptr(0, 4096), PTR_LOW, PTR_HIGH, Ptr(8388608, 0), Ptr(-1, 16777215)}

KeyEverywhere == [a \in ImplausiblePtrs \cup Addresses |-> GoodKey]

ScanImages ==
    MemImages
    \cup { [slots |-> <<Slot(a), Slot(b)>>, heap |-> KeyEverywhere] :
              a \in ImplausiblePtrs, b \in ImplausiblePtrs \cup Addresses }
    \cup { [slots |-> <<Slot(NullPtr), SlotUnreadable, Slot(NullPtr)>>, heap |-> KeyEverywhere] }

\* the database the validator reads
KeyDatabase == BuildFile(PROFILE_V3, KeyBytes(KEY_SIZE, 1), 0, 2, 0, "none")

DbChoices == {"none", "missing", "exists"}

DbAt(db_path) == IF db_path = "exists" THEN KeyDatabase ELSE Missing

(***************************************************************************)
(* Modules of the target process.                                          *)
(***************************************************************************)
Module(base, size) == [kind |-> "module", lpBaseOfDll |-> base, SizeOfImage |-> size]

LookupOutcomes ==
    { [kind |-> "none", lpBaseOfDll |-> 0, SizeOfImage |-> 0],
      [kind |-> "raise", lpBaseOfDll |-> 0, SizeOfImage |-> 0],
      Module(1, 2), Module(2, 1) }

\* modules_to_scan.sort(key = SizeOfImage): insertion into a sorted list, stable
RECURSIVE SortBySize(_)
SortBySize(ms) ==
    IF ms = <<>> THEN <<>>
    ELSE LET rest == SortBySize(SubSeq(ms, 1, Len(ms) - 1))
             m == ms[Len(ms)]
             k == Cardinality({j \in 1..Len(rest) : rest[j].SizeOfImage <= m.SizeOfImage})
         IN SubSeq(rest, 1, k) \o <<m>> \o SubSeq(rest, k + 1, Len(rest))

AttachErrors ==
    { Exception("ProcessNotFound", "not_found"),
      Exception("CouldNotOpenProcess", "access_denied") }

ContainsAccessDenied(msg) == msg = "access_denied"

XInit ==
    /\ xpc = "idle"
    /\ xenv = [table |-> <<>>, db_path |-> "none"]
    /\ candidates = <<>>
    /\ validate_cb = FALSE
    /\ ci = 0
    /\ pm = 0
    /\ modules_to_scan = <<>>
    /\ seen_bases = {}
    /\ found_named_module = FALSE
    /\ saw_supported_module = FALSE
    /\ di = 0
    /\ mi = 0
    /\ last_error = NoExc
    /\ xafter = "none"
    /\ xresult = KeyString(0, TRUE, 0)
    /\ xexc = NoExc
    /\ opened = <<>>
    /\ close_log = <<>>
    /\ xops = {}
    /\ validated = {}

(***************************************************************************)
(* extract_key_from_memory(db_path), statement by statement.  What the     *)
(* target process answers (attach, module lookups, memory) is chosen       *)
(* anew at each step.                                                      *)
(***************************************************************************)
XRaise(e) == xpc' = "raised" /\ xexc' = e

KeyExtractionError(msg) == Exception("KeyExtractionError", msg)

XCall ==
    /\ UNCHANGED <<dvars, tvars>>
    /\ xpc = "idle"
    /\ \E t \in ProcessTables, d \in DbChoices : xenv' = [table |-> t, db_path |-> d]
    /\ xpc' = "check_running"
    /\ UNCHANGED <<candidates, validate_cb, ci, pm, modules_to_scan, seen_bases,
                   found_named_module, saw_supported_module, di, mi, last_error,
                   xafter, xresult, xexc, opened, close_log, xops, validated>>

\* if not is_wechat_running(): raise WeChatNotRunningError
XCheckRunning ==
    /\ UNCHANGED <<dvars, tvars>>
    /\ xpc = "check_running"
    /\ IF ~is_wechat_running(xenv.table)
       THEN XRaise(Exception("WeChatNotRunningError", "not_running"))
       ELSE xpc' = "enumerate" /\ UNCHANGED xexc
    /\ UNCHANGED <<xenv, candidates, validate_cb, ci, pm, modules_to_scan, seen_bases,
                   found_named_module, saw_supported_module, di, mi, last_error,
                   xafter, xresult, opened, close_log, xops, validated>>

\* candidates = _get_wechat_process_candidates() (the table read again: the
\* processes may have gone); validate_cb; the name fallbacks
XEnumerate ==
    /\ UNCHANGED <<dvars, tvars>>
    /\ xpc = "enumerate"
    /\ \E t2 \in {xenv.table, <<>>} :
          LET found == get_wechat_process_candidates(t2) IN
          candidates' = IF found = <<>>
                        THEN [i \in 1..Len(NAME_FALLBACKS) |-> Proc(0, NAME_FALLBACKS[i])]
                        ELSE found
    /\ validate_cb' = (xenv.db_path = "exists")
    /\ last_error' = NoExc
    /\ saw_supported_module' = FALSE
    /\ ci' = 1
    /\ xpc' = "attach"
    /\ UNCHANGED <<xenv, pm, modules_to_scan, seen_bases, found_named_module, di, mi,
                   xafter, xresult, xexc, opened, close_log, xops, validated>>

\* for pid, name in candidates: pm = None; pm = pymem.Pymem(pid if pid else name)
XAttach ==
    /\ UNCHANGED <<dvars, tvars>>
    /\ xpc = "attach"
    /\ IF ci > Len(candidates)
       THEN /\ xpc' = "fallback"
            /\ UNCHANGED <<ci, pm, modules_to_scan, seen_bases, last_error, opened, xops>>
       ELSE /\ xops' = xops \cup {"attach"}
            /\ \E e \in AttachErrors \cup {NoExc} :
                  IF e = NoExc
                  THEN /\ pm' = ci
                       /\ opened' = Append(opened, ci)
                       /\ modules_to_scan' = <<>>
                       /\ seen_bases' = {}
                       /\ xpc' = "base_module"
                       /\ UNCHANGED <<ci, last_error>>
                  ELSE \* except Exception as e; finally finds pm None
                       /\ pm' = 0
                       /\ last_error' = e
                       /\ ci' = ci + 1
                       /\ xpc' = "attach"
                       /\ UNCHANGED <<opened, modules_to_scan, seen_bases>>
    /\ UNCHANGED <<xenv, candidates, validate_cb, found_named_module,
                   saw_supported_module, di, mi, xafter, xresult, xexc, close_log,
                   validated>>

\* base = pymem.process.base_module(handle), any exception passed over
XBaseModule ==
    /\ UNCHANGED <<dvars, tvars>>
    /\ xpc = "base_module"
    /\ xops' = xops \cup {"module_lookup"}
    /\ \E o \in LookupOutcomes :
          IF o.kind = "module"
          THEN /\ modules_to_scan' = Append(modules_to_scan, o)
               /\ seen_bases' = seen_bases \cup {o.lpBaseOfDll}
          ELSE UNCHANGED <<modules_to_scan, seen_bases>>
    /\ found_named_module' = FALSE
    /\ di' = 1
    /\ xpc' = "named_module"
    /\ UNCHANGED <<xenv, candidates, validate_cb, ci, pm, saw_supported_module, mi,
                   last_error, xafter, xresult, xexc, opened, close_log, validated>>

\* one iteration of: for dll in _WECHAT_DLL_NAMES
XNamedModule ==
    /\ UNCHANGED <<dvars, tvars>>
    /\ xpc = "named_module"
    /\ di <= Len(WECHAT_DLL_NAMES)
    /\ xops' = xops \cup {"module_lookup"}
    /\ \E o \in LookupOutcomes :
          IF o.kind # "module"
          THEN UNCHANGED <<found_named_module, modules_to_scan, seen_bases>>
          ELSE /\ found_named_module' = TRUE
               /\ IF o.lpBaseOfDll \in seen_bases
                  THEN UNCHANGED <<modules_to_scan, seen_bases>>
                  ELSE /\ modules_to_scan' = Append(modules_to_scan, o)
                       /\ seen_bases' = seen_bases \cup {o.lpBaseOfDll}
    /\ di' = di + 1
    /\ UNCHANGED <<xpc, xenv, candidates, validate_cb, ci, pm, saw_supported_module,
                   mi, last_error, xafter, xresult, xexc, opened, close_log, validated>>

\* if found_named_module: ...; if not modules_to_scan: continue; the sort
XResolved ==
    /\ UNCHANGED <<dvars, tvars>>
    /\ xpc = "named_module"
    /\ di > Len(WECHAT_DLL_NAMES)
    /\ saw_supported_module' = (saw_supported_module \/ found_named_module)
    /\ IF modules_to_scan = <<>>
       THEN /\ xpc' = "close"
            /\ xafter' = "next"
            /\ UNCHANGED <<modules_to_scan, mi>>
       ELSE /\ modules_to_scan' = SortBySize(modules_to_scan)
            /\ mi' = 1
            /\ xpc' = "scan"
            /\ UNCHANGED xafter
    /\ UNCHANGED <<xenv, candidates, validate_cb, ci, pm, seen_bases,
                   found_named_module, di, last_error, xresult, xexc, opened,
                   close_log, xops, validated>>

\* the bytes read again taken on trust
revalidate_skipped(has_validator, key_bytes, db) == TRUE

\* the second validation, of the bytes read again at the address found
revalidate_ok(has_validator, key_bytes, db) ==
    ~(has_validator /\ ~validate_key_bytes(key_bytes, db))

ReadErrors ==
    { Exception("MemoryReadError", "read_failed"),
      Exception("MemoryReadError", "access_denied") }

\* one iteration of: for module in modules_to_scan, and what follows the loop
XScan ==
    /\ UNCHANGED <<dvars, tvars>>
    /\ xpc = "scan"
    /\ IF mi > Len(modules_to_scan)
       THEN /\ last_error' = KeyExtractionError("key_pattern_not_found")
            /\ xpc' = "close"
            /\ xafter' = "next"
            /\ UNCHANGED <<mi, xresult, xops, validated>>
       ELSE /\ xops' = xops \cup {"read_memory"}
            /\ \E image \in MemImages :
               LET db == DbAt(xenv.db_path)
                   found == search_key_pattern(image, validate_cb, db)
               IN IF found.addr = NullPtr
                  THEN /\ validated' = validated \cup found.accepted
                       /\ mi' = mi + 1
                       /\ UNCHANGED <<xpc, xafter, last_error, xresult>>
                  ELSE \E key_bytes \in {read_bytes(image.heap, found.addr), WrongKey, NoRead} :
                       IF ~key_bytes.ok
                       THEN \E e \in ReadErrors :
                            /\ last_error' = e
                            /\ validated' = validated \cup found.accepted
                            /\ xpc' = "close"
                            /\ xafter' = "next"
                            /\ UNCHANGED <<mi, xresult>>
                       ELSE IF ~revalidate_ok(validate_cb, key_bytes, db)
                       THEN /\ validated' = validated \cup found.accepted
                            /\ mi' = mi + 1
                            /\ UNCHANGED <<xpc, xafter, last_error, xresult>>
                       ELSE /\ validated' = validated \cup found.accepted \cup
                                (IF validate_cb THEN {key_bytes} ELSE {})
                            /\ xresult' = bytes_hex(key_bytes)
                            /\ xpc' = "close"
                            /\ xafter' = "return"
                            /\ UNCHANGED <<mi, last_error>>
    /\ UNCHANGED <<xenv, candidates, validate_cb, ci, pm, modules_to_scan, seen_bases,
                   found_named_module, saw_supported_module, di, xexc, opened,
                   close_log>>

\* a finally clause that closes nothing
close_skipped(handle) == FALSE

\* if pm is not None
close_needed(handle) == handle # 0

\* finally: if pm is not None: pm.close_process(); then the continue or return
XClose ==
    /\ UNCHANGED <<dvars, tvars>>
    /\ xpc = "close"
    /\ IF close_needed(pm)
       THEN close_log' = Append(close_log, pm)
       ELSE UNCHANGED close_log
    /\ pm' = 0
    /\ IF xafter = "return"
       THEN xpc' = "returned" /\ UNCHANGED ci
       ELSE xpc' = "attach" /\ ci' = ci + 1
    /\ xafter' = "none"
    /\ UNCHANGED <<xenv, candidates, validate_cb, modules_to_scan, seen_bases,
                   found_named_module, saw_supported_module, di, mi, last_error,
                   xresult, xexc, opened, xops, validated>>

\* the pid the wx_key helper is given, -1 for None
WeixinPid(cands) ==
    LET hits == {i \in 1..Len(cands) : normalize_process_name(cands[i].name) = "weixin"}
        first == IF hits = {} THEN -1
                 ELSE cands[CHOOSE i \in hits : \A j \in hits : i <= j].pid
    IN IF first = -1 /\ cands # <<>> THEN cands[1].pid ELSE first

HelperOutcomes ==
    {KeyString(KEY_LENGTH_HEX, TRUE, i) : i \in 1..NumKeys}
    \cup {KeyString(0, FALSE, 0)}

\* the wx_key fallback after the loop
XFallback ==
    /\ UNCHANGED <<dvars, tvars>>
    /\ xpc = "fallback"
    /\ LET weixin_pid == WeixinPid(candidates) IN
       IF validate_cb /\ weixin_pid \notin {-1, 0}
       THEN /\ xops' = xops \cup {"helper"}
            /\ \E key_hex \in HelperOutcomes :
               IF ~key_hex.hex
               THEN \* _extract_key_with_wx_key raises
                    /\ XRaise(KeyExtractionError("wx_key_failed"))
                    /\ UNCHANGED <<xresult, validated>>
               ELSE LET key_bytes == Buffer(key_hex.chars \div 2, 0, 0, key_hex.id) IN
                    IF ~validate_key_bytes(key_bytes, DbAt(xenv.db_path))
                    THEN /\ XRaise(KeyExtractionError("key_does_not_validate"))
                         /\ UNCHANGED <<xresult, validated>>
                    ELSE /\ xresult' = key_hex
                         /\ validated' = validated \cup {key_bytes}
                         /\ xpc' = "returned"
                         /\ UNCHANGED xexc
       ELSE /\ xpc' = "final_error"
            /\ UNCHANGED <<xops, xresult, validated, xexc>>
    /\ UNCHANGED <<xenv, candidates, validate_cb, ci, pm, modules_to_scan, seen_bases,
                   found_named_module, saw_supported_module, di, mi, last_error,
                   xafter, opened, close_log>>

\* the last error looked at before the modules seen
final_error_cause_first(saw_supported, err) ==
    IF err # NoExc
    THEN IF ContainsAccessDenied(err.msg)
         THEN KeyExtractionError("access_denied_run_as_administrator")
         ELSE IF err.type = "KeyExtractionError" THEN err
         ELSE KeyExtractionError("failed_to_extract_with_cause")
    ELSE IF ~saw_supported THEN KeyExtractionError("no_known_module")
    ELSE KeyExtractionError("failed_to_extract")

\* the error raised when no key was obtained
final_error(saw_supported, err) ==
    IF ~saw_supported THEN KeyExtractionError("no_known_module")
    ELSE IF err # NoExc
    THEN IF ContainsAccessDenied(err.msg)
         THEN KeyExtractionError("access_denied_run_as_administrator")
         ELSE IF err.type = "KeyExtractionError" THEN err
         ELSE KeyExtractionError("failed_to_extract_with_cause")
    ELSE KeyExtractionError("failed_to_extract")

XFinalError ==
    /\ UNCHANGED <<dvars, tvars>>
    /\ xpc = "final_error"
    /\ XRaise(final_error(saw_supported_module, last_error))
    /\ UNCHANGED <<xenv, candidates, validate_cb, ci, pm, modules_to_scan, seen_bases,
                   found_named_module, saw_supported_module, di, mi, last_error,
                   xafter, xresult, opened, close_log, xops, validated>>

(***************************************************************************)
(* Key strings as the user or the helper supplies them: the number of      *)
(* characters, whether all are hexadecimal digits, the case of the         *)
(* letters, and the value; NoneText is None.                               *)
(***************************************************************************)
Text(chars, hex, case, id) == [chars |-> chars, hex |-> hex, case |-> case, id |-> id]

NoneText == Text(0, FALSE, "none", 0)

\* str.lower()
str_lower(t) == [t EXCEPT !.case = "lower"]

is_valid_hex_key_any_length(key) == key # NoneText /\ key.hex

\* _is_valid_hex_key
is_valid_hex_key(key) ==
    IF key = NoneText THEN FALSE
    ELSE IF key.chars # KEY_LENGTH_HEX THEN FALSE
    ELSE key.hex

(***************************************************************************)
(* _extract_key_with_wx_key(pid, timeout_sec).  Time is counted in sleep   *)
(* intervals; what the helper library answers is chosen anew at each call. *)
(***************************************************************************)
MaxBudget == 2

STATUS_KEEP == 10

PollKeys ==
    { Text(KEY_LENGTH_HEX, TRUE, "lower", 1), Text(KEY_LENGTH_HEX, TRUE, "upper", 1),
      Text(KEY_LENGTH_HEX, FALSE, "lower", 1), Text(KEY_LENGTH_HEX - 1, TRUE, "lower", 1),
      Text(0, TRUE, "lower", 0) }

WInit ==
    /\ wpc = "idle"
    /\ wnow = 0
    /\ wdeadline = 0
    /\ last_status = <<>>
    /\ cleanup_calls = 0
    /\ wafter = "none"
    /\ wresult = NoneText
    /\ wexc = NoExc

\* _find_wx_key_dll, ctypes.CDLL, lib.InitializeHook; deadline = time.time() + timeout_sec
WInitialize ==
    /\ UNCHANGED <<dvars, xvars, uvars, mvars, avars>>
    /\ wpc = "idle"
    /\ \E o \in {"dll_not_found", "load_failed", "initialize_hook_failed", "ok"},
          timeout_sec \in 0..MaxBudget :
          IF o # "ok"
          THEN /\ wpc' = "raised"
               /\ wexc' = KeyExtractionError(o)
               /\ UNCHANGED wdeadline
          ELSE /\ wpc' = "deadline"
               /\ wdeadline' = wnow + timeout_sec
               /\ UNCHANGED wexc
    /\ UNCHANGED <<wnow, last_status, cleanup_calls, wafter, wresult>>

\* while time.time() < deadline, and the timeout error after the loop
WDeadline ==
    /\ UNCHANGED <<dvars, xvars, uvars, mvars, avars>>
    /\ wpc = "deadline"
    /\ IF wnow < wdeadline
       THEN wpc' = "drain" /\ UNCHANGED <<wexc, wafter>>
       ELSE /\ wexc' = [type |-> "KeyExtractionError", msg |-> "timed_out",
                        status |-> last_status]
            /\ wafter' = "raise"
            /\ wpc' = "cleanup"
    /\ UNCHANGED <<wnow, wdeadline, last_status, cleanup_calls, wresult>>

\* one iteration of: while lib.GetStatusMessage(...)
WDrain ==
    /\ UNCHANGED <<dvars, xvars, uvars, mvars, avars>>
    /\ wpc = "drain"
    /\ \E r \in {"none", "hooking", "waiting", "blank", "undecodable"} :
          /\ wpc' = IF r \in {"none", "undecodable"} THEN "poll" ELSE "drain"
          /\ last_status' =
                IF r \in {"hooking", "waiting"}
                THEN LET all == Append(last_status, r) IN
                     SubSeq(all, Max(1, Len(all) - STATUS_KEEP + 1), Len(all))
                ELSE last_status
    /\ UNCHANGED <<wnow, wdeadline, cleanup_calls, wafter, wresult, wexc>>

\* if lib.PollKeyData(...): return key.lower() or raise
WPoll ==
    /\ UNCHANGED <<dvars, xvars, uvars, mvars, avars>>
    /\ wpc = "poll"
    /\ \E got \in BOOLEAN, key \in PollKeys :
          IF ~got
          THEN wpc' = "sleep" /\ UNCHANGED <<wafter, wresult, wexc>>
          ELSE IF is_valid_hex_key(key)
          THEN /\ wresult' = str_lower(key)
               /\ wafter' = "return"
               /\ wpc' = "cleanup"
               /\ UNCHANGED wexc
          ELSE /\ wexc' = KeyExtractionError("invalid_key_format")
               /\ wafter' = "raise"
               /\ wpc' = "cleanup"
               /\ UNCHANGED wresult
    /\ UNCHANGED <<wnow, wdeadline, last_status, cleanup_calls>>

\* time.sleep(0.1)
WSleep ==
    /\ UNCHANGED <<dvars, xvars, uvars, mvars, avars>>
    /\ wpc = "sleep"
    /\ wnow' = wnow + 1
    /\ wpc' = "deadline"
    /\ UNCHANGED <<wdeadline, last_status, cleanup_calls, wafter, wresult, wexc>>

\* finally: lib.CleanupHook(), whatever it raises passed over
WCleanup ==
    /\ UNCHANGED <<dvars, xvars, uvars, mvars, avars>>
    /\ wpc = "cleanup"
    /\ cleanup_calls' = cleanup_calls + 1
    /\ wpc' = IF wafter = "return" THEN "returned" ELSE "raised"
    /\ UNCHANGED <<wnow, wdeadline, last_status, wafter, wresult, wexc>>

UInit ==
    /\ fn = "none"
    /\ fargs = <<>>
    /\ fret = <<>>
    /\ keyring = NoneText

(***************************************************************************)
(* Single calls of the module-level functions.  fn names the function last *)
(* called, fargs what it was given (with the keyring as it was found),     *)
(* fret what came back: a value returned or an exception raised.           *)
(***************************************************************************)
Returned(v) == [raised |-> FALSE, value |-> v]

Raised(e) == [raised |-> TRUE, exc |-> e]

\* key_extractor.InvalidKeyError with the text "Key must be 64 hexadecimal characters"
KeyFormatError(info) == Exception("InvalidKeyError", info)

UserKeys ==
    { Text(KEY_LENGTH_HEX, TRUE, c, i) : c \in {"lower", "upper", "mixed"}, i \in 1..2 }
    \cup { Text(KEY_LENGTH_HEX - 1, TRUE, "lower", 1), Text(KEY_LENGTH_HEX + 1, TRUE, "upper", 1),
           Text(KEY_LENGTH_HEX, FALSE, "mixed", 1), Text(0, FALSE, "lower", 0), NoneText }

\* validate_key
validate_key(key, db_path) ==
    IF ~is_valid_hex_key(key)
    THEN Raised(KeyFormatError([required |-> KEY_LENGTH_HEX,
                                got |-> IF key = NoneText THEN 0 ELSE key.chars]))
    ELSE Returned(TRUE)

\* set_manual_key with save_key_to_keyring: the outcome and the keyring after it
set_manual_key(key, ring) ==
    IF ~is_valid_hex_key(key)
    THEN [ret |-> Raised(KeyFormatError([required |-> KEY_LENGTH_HEX])), keyring |-> ring]
    ELSE LET normalized_key == str_lower(key)
         IN [ret |-> Returned(TRUE), keyring |-> normalized_key]

UValidateKey ==
    /\ UNCHANGED <<dvars, xvars, wvars, mvars, avars>>
    /\ fn = "none"
    /\ \E key \in UserKeys, db_path \in DbChoices :
          /\ fn' = "validate_key"
          /\ fargs' = <<key, keyring>>
          /\ fret' = validate_key(key, db_path)
    /\ UNCHANGED keyring

USetManualKey ==
    /\ UNCHANGED <<dvars, xvars, wvars, mvars, avars>>
    /\ fn = "none"
    /\ \E key \in UserKeys :
          LET r == set_manual_key(key, keyring)
          IN /\ fn' = "set_manual_key"
             /\ fargs' = <<key, keyring>>
             /\ fret' = r.ret
             /\ keyring' = r.keyring

\* _candidate_profiles(version_hint); 0 is None, 2 and 5 are hints no list is kept for
UCandidateProfiles ==
    /\ UNCHANGED <<dvars, xvars, wvars, mvars, avars>>
    /\ fn = "none"
    /\ \E version_hint \in Hints \cup {2, 5} :
          /\ fn' = "candidate_profiles"
          /\ fargs' = <<version_hint, keyring>>
          /\ fret' = candidate_profiles(version_hint)
    /\ UNCHANGED keyring

(***************************************************************************)
(* A page with one bit changed in its ciphertext, its IV, its tag or the   *)
(* padding after the tag; the changed bytes equal no bytes written before. *)
(***************************************************************************)
Flipped(bytes) == [fn |-> "flipped", of |-> bytes]

PadSize(prof) == prof.reserved_size - IV_SIZE - prof.hmac_size

FlipBit(page, where) ==
    IF where = "cipher" THEN [page EXCEPT !.cipher = Flipped(page.cipher)]
    ELSE IF where = "iv" THEN [page EXCEPT !.iv = -2 - page.iv]
    ELSE IF where = "tag" THEN [page EXCEPT !.tag = [t |-> Flipped(page.tag.t), n |-> page.tag.n]]
    ELSE IF where = "pad" THEN [page EXCEPT !.pad = page.pad + 1]
    ELSE page

Salts == {0, 1}

\* _verify_hmac_for_profile on a page written for page number pn and then changed
UVerifyHmac ==
    /\ UNCHANGED <<dvars, xvars, wvars, mvars, avars>>
    /\ fn = "none"
    /\ \E prof \in AllProfiles, i \in 1..NumKeys, salt \in Salts, pn \in 1..MaxPages,
          len \in {PAGE_SIZE, PAGE_SIZE - SALT_SIZE},
          where \in {"nowhere", "cipher", "iv", "tag", "pad"}, pn_checked \in 1..MaxPages :
          LET key_bytes == KeyBytes(KEY_SIZE, i)
              mac_key == derive_mac_key(key_bytes, salt, prof)
              page_data == FlipBit(BuildPage(prof, key_bytes, salt, pn, len), where)
          IN /\ where = "pad" => PadSize(prof) > 0
             /\ fn' = "verify_hmac_for_profile"
             /\ fargs' = [profile |-> prof, key |-> key_bytes, salt |-> salt, pn |-> pn,
                          len |-> len, where |-> where, page_number |-> pn_checked]
             /\ fret' = verify_hmac_for_profile(mac_key, page_data, pn_checked, prof)
    /\ UNCHANGED keyring

\* _verify_hmac_for_profile and _decrypt_page_for_profile on a page as the client writes it
UVerifyAndDecrypt ==
    /\ UNCHANGED <<dvars, xvars, wvars, mvars, avars>>
    /\ fn = "none"
    /\ \E prof \in AllProfiles, i \in 1..NumKeys, salt \in Salts, pn \in 1..MaxPages,
          len \in {PAGE_SIZE, PAGE_SIZE - SALT_SIZE} :
          LET key_bytes == KeyBytes(KEY_SIZE, i)
              decrypt_key == derive_decrypt_key(key_bytes, salt, prof)
              mac_key == derive_mac_key(key_bytes, salt, prof)
              page_data == BuildPage(prof, key_bytes, salt, pn, len)
          IN /\ fn' = "verify_and_decrypt_page"
             /\ fargs' = [profile |-> prof, key |-> key_bytes, salt |-> salt, pn |-> pn,
                          len |-> len]
             /\ fret' = [verified |-> verify_hmac_for_profile(mac_key, page_data, pn, prof),
                         decrypted |-> decrypt_page_for_profile(decrypt_key, page_data, prof)]
    /\ UNCHANGED keyring

\* _search_key_pattern over one module's memory
USearchKeyPattern ==
    /\ UNCHANGED <<dvars, xvars, wvars, mvars, avars>>
    /\ fn = "none"
    /\ \E image \in ScanImages, has_validator \in BOOLEAN :
          /\ fn' = "search_key_pattern"
          /\ fargs' = [image |-> image, has_validator |-> has_validator]
          /\ fret' = search_key_pattern(image, has_validator, KeyDatabase)
    /\ UNCHANGED keyring

(***************************************************************************)
(* Files given to is_encrypted_database: what the file starts with (up to  *)
(* 16 bytes), what follows, and whether open() succeeds on it.             *)
(***************************************************************************)
FileStarts ==
    { <<>>,
      << Piece("header", SQLITE_FILE_HEADER, SALT_SIZE - 1) >>,
      << Piece("header", SQLITE_FILE_HEADER, SALT_SIZE) >>,
      << Piece("header", [kind |-> "sqlite", b |-> 115], SALT_SIZE) >>,
      << Piece("salt", [kind |-> "salt", b |-> 0], SALT_SIZE) >>,
      << Piece("salt", [kind |-> "salt", b |-> 0], 5) >> }

FileRests ==
    { <<>>,
      << Piece("body", [fn |-> "plain", id |-> 1, n |-> 4032], 4032) >>,
      << Piece("header", SQLITE_FILE_HEADER, SALT_SIZE) >> }

\* is_encrypted_database(db_path)
UIsEncryptedDatabase ==
    /\ UNCHANGED <<dvars, xvars, wvars, mvars, avars>>
    /\ fn = "none"
    /\ \E start \in FileStarts, rest \in FileRests, openable \in BOOLEAN :
          /\ rest # <<>> => start # <<>> /\ start[1].n = SALT_SIZE
          /\ fn' = "is_encrypted_database"
          /\ fargs' = [start |-> start, rest |-> rest, openable |-> openable]
          /\ fret' = is_encrypted_database([exists |-> openable, data |-> start \o rest])
    /\ UNCHANGED keyring

\* buffers a read of the target's memory can give the filter
KeyBuffers ==
    { Buffer(len, zeros, distinct, id) :
         len \in {0, KEY_LENGTH_BYTES - 1, KEY_LENGTH_BYTES, KEY_LENGTH_BYTES + 1},
         zeros \in {0, 1, 4, 5, 8, 9, KEY_LENGTH_BYTES},
         distinct \in {0, 1, 15, 16, 17, 28}, id \in 1..2 }

\* a buffer of len bytes can have that many zero bytes and distinct values
BufferExists(b) ==
    /\ b.zeros <= b.len
    /\ (b.len = 0) = (b.distinct = 0)
    /\ b.distinct <= (b.len - b.zeros) + (IF b.zeros > 0 THEN 1 ELSE 0)
    /\ (b.zeros = b.len /\ b.len > 0) => b.distinct = 1
    /\ (b.zeros < b.len /\ b.zeros > 0) => b.distinct >= 2

\* looks_like_key(key_bytes), with and without validate_key_bytes
ULooksLikeKey ==
    /\ UNCHANGED <<dvars, xvars, wvars, mvars, avars>>
    /\ fn = "none"
    /\ \E key_bytes \in KeyBuffers, has_validator \in BOOLEAN :
          /\ BufferExists(key_bytes)
          /\ fn' = "looks_like_key"
          /\ fargs' = [key_bytes |-> key_bytes, has_validator |-> has_validator]
          /\ fret' = looks_like_key_run(key_bytes, has_validator, KeyDatabase)
    /\ UNCHANGED keyring

(***************************************************************************)
(* _search_key_pattern, byte by byte.  The module's memory is a sequence   *)
(* of bytes at module_base, some of them unreadable: a read raises when    *)
(* its range holds an unreadable byte.  A pointer slot holds the value the *)
(* image gives it, NullPtr otherwise.  The sizes are scaled: ChunkSize     *)
(* stands for chunk_size (4 MiB), RetrySize for the 256 KiB of the retry,  *)
(* ScanWindow for back_window and forward_window (0x2000), and each        *)
(* signature of SEARCH_PATTERNS is cut to its first and last bytes.        *)
(***************************************************************************)
ChunkSize == 8

RetrySize == 4

ScanWindow == 8

MaxModule == 19

SEARCH_PATTERNS == << <<45, 66, 45>>, <<105, 0>>, <<97, 0>>, <<73, 0>> >>

MODULE_BASE == 64

\* for step in (4, 8)
steps_narrow_first == <<4, 8>>

\* for step in (8, 4)
steps == <<8, 4>>

\* nothing is carried from a chunk into the next
overlap_none(pattern) == 0

\* overlap = max(len(pattern) - 1, 0)
overlap_of(pattern) == Max(Len(pattern) - 1, 0)

\* an exception handler that lets the exception through
except_reraise(st) == [st EXCEPT !.raised = TRUE]

\* except Exception: pass
except_pass(st) == st

\* pm.read_bytes(module_base + off, n)
read_chunk(image, off, n) ==
    IF \E i \in off..(off + n - 1) : i \in image.unreadable
    THEN [ok |-> FALSE, data |-> <<>>]
    ELSE [ok |-> TRUE, data |-> [i \in 1..n |-> image.bytes[off + i]]]

\* pm.read_ulonglong(addr) and pm.read_int(addr)
read_slot(image, addr, step) ==
    IF \E i \in addr..(addr + step - 1) : (i - MODULE_BASE) \in image.unreadable
    THEN SlotUnreadable
    ELSE IF \E h \in image.hot : h.addr = addr /\ h.step = step
    THEN Slot((CHOOSE h \in image.hot : h.addr = addr /\ h.step = step).v)
    ELSE Slot(NullPtr)

\* hay.find(pattern, start): the index, from 0, or -1
find(hay, pattern, start) ==
    LET hits == { i \in start..(Len(hay) - Len(pattern)) :
                     \A j \in 1..Len(pattern) : hay[i + j] = pattern[j] }
    IN IF hits = {} THEN -1 ELSE CHOOSE i \in hits : \A j \in hits : i <= j

\* hay[-overlap:] if overlap else b""
hay_tail(hay, overlap) ==
    IF overlap = 0 THEN <<>>
    ELSE IF overlap >= Len(hay) THEN hay
    ELSE SubSeq(hay, Len(hay) - overlap + 1, Len(hay))

\* rem = addr % step; if rem: addr += step - rem
align_up(addr, step) ==
    LET rem == addr % step IN IF rem # 0 THEN addr + step - rem ELSE addr

\* what a scan has done so far: the reads of chunks, the matches of
\* signatures, the reads of slots, and every read of memory and call of the
\* validator in the order they were made
ScanStart ==
    [found |-> FALSE, addr |-> NullPtr, raised |-> FALSE,
     chunks |-> <<>>, matches |-> <<>>, slots |-> <<>>, reads |-> <<>>]

\* while addr + step <= search_end (lines 399-417)
RECURSIVE scan_slots(_, _, _, _, _, _)
scan_slots(image, ctx, step, addr, search_end, st) ==
    IF st.found \/ st.raised \/ addr + step > search_end THEN st
    ELSE LET slot == read_slot(image, addr, step)
             st1 == [st EXCEPT
                        !.slots = Append(@, [sig |-> ctx.sig, match |-> ctx.match,
                                             step |-> step, addr |-> addr, ok |-> slot.ok]),
                        !.reads = Append(@, [op |-> "slot", at |-> addr, n |-> step])]
         IN
         IF ~slot.ok
         THEN scan_slots(image, ctx, step, addr + step, search_end, except_pass(st1))
         ELSE IF ~(PtrLess(PTR_LOW, slot.v) /\ PtrLess(slot.v, PTR_HIGH))
         THEN scan_slots(image, ctx, step, addr + step, search_end, st1)
         ELSE LET potential_key == read_bytes(image.heap, slot.v)
                  st2 == [st1 EXCEPT !.reads = Append(@, [op |-> "deref", at |-> slot.v,
                                                          n |-> KEY_LENGTH_BYTES])]
              IN
              IF ~potential_key.ok
              THEN scan_slots(image, ctx, step, addr + step, search_end, except_pass(st2))
              ELSE LET run == looks_like_key_run(potential_key, ctx.has_validator, ctx.db)
                       st3 == IF run.validated
                              THEN [st2 EXCEPT !.reads = Append(@, [op |-> "validate",
                                                                    at |-> slot.v, n |-> 0])]
                              ELSE st2
                   IN
                   IF run.result
                   THEN [st3 EXCEPT !.found = TRUE, !.addr = slot.v]
                   ELSE scan_slots(image, ctx, step, addr + step, search_end, st3)

\* for step in (8, 4) (lines 393-417)
scan_steps(image, ctx, search_start, search_end, st) ==
    scan_slots(image, ctx, steps[2], align_up(search_start, steps[2]), search_end,
               scan_slots(image, ctx, steps[1], align_up(search_start, steps[1]),
                          search_end, st))

\* while True: idx = hay.find(pattern, start) (lines 382-419)
RECURSIVE scan_matches(_, _, _, _, _, _, _)
scan_matches(image, ctx, hay, start, off, tail_len, st) ==
    IF st.found \/ st.raised THEN st
    ELSE LET idx == find(hay, ctx.pattern, start) IN
         IF idx = -1 THEN st
         ELSE LET pattern_addr == MODULE_BASE + off - tail_len + idx
                  search_start == Max(MODULE_BASE, pattern_addr - ScanWindow)
                  search_end == Min(MODULE_BASE + image.size, pattern_addr + ScanWindow)
                  st1 == [st EXCEPT !.matches = Append(@, [sig |-> ctx.sig, off |-> off,
                                                           idx |-> idx, addr |-> pattern_addr])]
              IN scan_matches(image, ctx, hay, idx + 1, off, tail_len,
                              scan_steps(image, [ctx EXCEPT !.match = pattern_addr],
                                         search_start, search_end, st1))

\* while offset < module_size (lines 365-422)
RECURSIVE scan_chunks(_, _, _, _, _)
scan_chunks(image, ctx, off, tail, st) ==
    IF st.found \/ st.raised \/ off >= image.size THEN st
    ELSE LET to_read == Min(ChunkSize, image.size - off)
             whole == read_chunk(image, off, to_read)
             retry_size == Min(RetrySize, to_read)
             retry == read_chunk(image, off, retry_size)
             Attempt(n, again, ok) ==
                 [sig |-> ctx.sig, off |-> off, n |-> n, retry |-> again, ok |-> ok]
             Read(n) == [op |-> "chunk", at |-> MODULE_BASE + off, n |-> n]
             st1 == [st EXCEPT !.chunks = Append(@, Attempt(to_read, FALSE, whole.ok)),
                               !.reads = Append(@, Read(to_read))]
             st2 == [st1 EXCEPT !.chunks = Append(@, Attempt(retry_size, TRUE, retry.ok)),
                                !.reads = Append(@, Read(retry_size))]
             chunk == IF whole.ok THEN whole.data ELSE retry.data
             hay == tail \o chunk
             read_now == IF whole.ok THEN to_read ELSE retry_size
         IN
         IF ~whole.ok /\ ~retry.ok
         THEN scan_chunks(image, ctx, off + retry_size, <<>>, st2)
         ELSE scan_chunks(image, ctx, off + read_now,
                          hay_tail(hay, overlap_of(ctx.pattern)),
                          scan_matches(image, ctx, hay, 0, off, Len(tail),
                                       IF whole.ok THEN st1 ELSE st2))

\* for pattern in SEARCH_PATTERNS (lines 360-424)
RECURSIVE scan_patterns(_, _, _, _)
scan_patterns(image, ctx, k, st) ==
    IF st.found \/ st.raised \/ k > Len(SEARCH_PATTERNS) THEN st
    ELSE scan_patterns(image, ctx, k + 1,
                       scan_chunks(image, [ctx EXCEPT !.sig = k, !.pattern = SEARCH_PATTERNS[k]],
                                   0, <<>>, st))

\* _search_key_pattern(pm, module_base, module_size, validate_key_bytes)
scan_module(image, has_validator, db) ==
    scan_patterns(image,
                  [sig |-> 0, pattern |-> <<>>, match |-> 0,
                   has_validator |-> has_validator, db |-> db],
                  1, ScanStart)

(***************************************************************************)
(* Memory images for the scan: a background byte, signatures written at    *)
(* some offsets, at most one unreadable byte, pointer slots that lead to   *)
(* buffers.                                                                *)
(***************************************************************************)
Placement(k, at) == [sig |-> k, at |-> at]

RECURSIVE WriteAll(_, _)
WriteAll(bytes, placed) ==
    IF placed = {} THEN bytes
    ELSE LET p == CHOOSE q \in placed : \A r \in placed : q.at <= r.at
             pat == SEARCH_PATTERNS[p.sig]
         IN WriteAll([i \in 1..Len(bytes) |->
                         IF i - 1 >= p.at /\ i - 1 < p.at + Len(pat)
                         THEN pat[i - p.at] ELSE bytes[i]],
                     placed \ {p})

Hot(addr, step, v) == [addr |-> addr, step |-> step, v |-> v]

ModuleImage(size, placed, unreadable, hot, b) ==
    [size |-> size,
     bytes |-> WriteAll([i \in 1..size |-> 7], {p \in placed : p.at + Len(SEARCH_PATTERNS[p.sig]) <= size}),
     unreadable |-> unreadable \cap 0..(size - 1),
     hot |-> hot,
     heap |-> (AddrA :> GoodKey) @@ (AddrB :> b)]

AtMostTwo(S) == {{}} \cup { {a, b} : a \in S, b \in S }

SignaturePlacements ==
    { Placement(1, at) : at \in {5, 6, 7, 8, 10, 14} }
    \cup { Placement(2, at) : at \in {3, 7, 11, 15} }
    \cup { Placement(4, 0) }

HotSlots ==
    { Hot(MODULE_BASE + at, step, v) :
         at \in {0, 4, 8, 12}, step \in {4, 8}, v \in {AddrA, AddrB} }

ModuleImages ==
    { ModuleImage(size, placed, unreadable, {}, GoodKey) :
         size \in {0, 9, 16, MaxModule}, placed \in AtMostTwo(SignaturePlacements),
         unreadable \in {{}, {2}, {9}, {13}, {17}} }
    \cup
    { ModuleImage(MaxModule, placed, unreadable, {h \in hot : h.addr % h.step = 0}, b) :
         placed \in {{Placement(1, 8)}, {Placement(2, 3), Placement(1, 8)}},
         unreadable \in {{}, {5}},
         hot \in AtMostTwo(HotSlots), b \in {GoodKey, WrongKey, NoRead} }

\* _search_key_pattern over a module's memory, read by read
UScanModule ==
    /\ UNCHANGED <<dvars, xvars, wvars, mvars, avars>>
    /\ fn = "none"
    /\ \E image \in ModuleImages, has_validator \in BOOLEAN :
          /\ fn' = "scan_module"
          /\ fargs' = [image |-> image, has_validator |-> has_validator]
          /\ fret' = scan_module(image, has_validator, KeyDatabase)
    /\ UNCHANGED keyring

\* the call is over and the next one can be made
UReturn ==
    /\ UNCHANGED <<dvars, xvars, wvars, mvars, avars>>
    /\ fn # "none"
    /\ fn' = "none"
    /\ fargs' = <<>>
    /\ fret' = <<>>
    /\ UNCHANGED keyring

(***************************************************************************)
(* ModeB (wechat_manager/core/mode_b.py) with the parts of WeChatDBHandler *)
(* and EncryptedStorage it calls.  A message is known by its contact, its  *)
(* type (1 is text) and the row it came from; every contact has fewer      *)
(* messages than the limit of 10000 the calls pass.  source is what the    *)
(* handler's connections show of the MSG tables.  A backup is the number   *)
(* of its directory; backups[i] tells whether backup i holds readable      *)
(* databases.                                                              *)
(***************************************************************************)
MaxBackups == 2

Message(c, t, n) == [contact_id |-> c, msg_type |-> t, id |-> n]

AllMessages == {Message("a", 1, 1), Message("a", 1, 2), Message("a", 3, 3), Message("b", 1, 4)}

ContactIds == {"a", "b"}

NoCall == [op |-> "none"]

MInit ==
    /\ source = AllMessages
    /\ storage = {}
    /\ backups = <<>>
    /\ last_backup_path = 0
    /\ backup_verified = FALSE
    /\ mcall = NoCall

\* what pre_flight_check looks at: the process table, the handler's _version_hint,
\* whether the test file can be written, whether the first database opens
PreFlightEnvs ==
    [table : ProcessTables, version_hint : {3, 4}, writable : BOOLEAN, accessible : BOOLEAN]

CheckNames == <<"mode_b_supported", "wechat_closed", "backup_dir_writable", "db_accessible">>

\* pre_flight_check: the checks dictionary
pre_flight_check(env) ==
    [mode_b_supported |-> env.version_hint # 4,
     wechat_closed |-> ~is_wechat_running(env.table),
     backup_dir_writable |-> env.writable,
     db_accessible |-> env.accessible]

\* a pre-flight verdict that leaves the process check out
all_passed_but_wechat(checks) ==
    checks.mode_b_supported /\ checks.backup_dir_writable /\ checks.db_accessible

\* all(checks.values())
all_passed(checks) == \A i \in 1..Len(CheckNames) : checks[CheckNames[i]]

\* [k for k, v in checks.items() if not v]
failed_checks(checks) ==
    LET Failed(k) == ~checks[k] IN SelectSeq(CheckNames, Failed)

PreFlightError(failed) == Exception("PreFlightError", failed)

BackupError(msg) == Exception("BackupError", msg)

\* a backup made only when none was ever made
backup_needed_if_none(path, is_verified) == path = 0

\* self._last_backup_path is None or not self._backup_verified
backup_needed(path, is_verified) == path = 0 \/ ~is_verified

\* WeChatDBHandler.get_messages: the rows of the contact with Type = 1
get_messages(db, contact_id) ==
    {m \in db : m.contact_id = contact_id /\ m.msg_type = 1}

\* the rows of the contact, whatever their type: DELETE FROM MSG WHERE TalkerId = ?
\* and SELECT ... FROM messages WHERE contact_id = ?
rows_of_contact(db, contact_id) == {m \in db : m.contact_id = contact_id}

\* the state a call finds
Before ==
    [source |-> source, storage |-> storage, backups |-> backups,
     last_backup_path |-> last_backup_path, backup_verified |-> backup_verified]

\* the record of a finished call
Finished(call, e, fields) == call @@ [exc |-> e] @@ fields

NoEffect == [extracted |-> {}, deleted |-> {}, inserted |-> {}, removed |-> {}, count |-> 0]

\* create_backup()
MCreateBackup ==
    /\ UNCHANGED <<dvars, xvars, wvars, uvars, avars>>
    /\ mcall = NoCall
    /\ Len(backups) < MaxBackups
    /\ \E copied \in BOOLEAN, readable \in BOOLEAN :
          LET call == [op |-> "create_backup", before |-> Before] IN
          IF ~copied
          THEN /\ mcall' = Finished(call, BackupError("backup_failed"), [path |-> 0])
               /\ UNCHANGED <<backups, last_backup_path, backup_verified>>
          ELSE /\ backups' = Append(backups, readable)
               /\ last_backup_path' = Len(backups) + 1
               /\ backup_verified' = FALSE
               /\ mcall' = Finished(call, NoExc, [path |-> Len(backups) + 1])
    /\ UNCHANGED <<source, storage>>

\* verify_backup(backup_path)
MVerifyBackup ==
    /\ UNCHANGED <<dvars, xvars, wvars, uvars, avars>>
    /\ mcall = NoCall
    /\ \E backup_path \in 1..MaxBackups :
          LET ok == backup_path <= Len(backups) /\ backups[backup_path] IN
          /\ backup_verified' = IF ok /\ last_backup_path = backup_path
                                THEN TRUE ELSE backup_verified
          /\ mcall' = [op |-> "verify_backup", before |-> Before, path |-> backup_path,
                       exc |-> NoExc, result |-> ok]
    /\ UNCHANGED <<source, storage, backups, last_backup_path>>

\* hide_messages, steps 3 and 4: extract, store, delete
HideBody(call) ==
    \E stored \in BOOLEAN, delete_done \in BOOLEAN :
       LET messages == get_messages(source, call.contact_id)
           extracted == IF stored THEN messages ELSE {}
           deleted == IF ~call.dry_run /\ messages # {} /\ delete_done
                      THEN rows_of_contact(source, call.contact_id) ELSE {}
       IN /\ storage' = storage \cup extracted
          /\ source' = source \ deleted
          /\ mcall' = Finished(call, NoExc,
                               [NoEffect EXCEPT !.extracted = extracted, !.deleted = deleted])

\* hide_messages(contact_id, dry_run)
MHideMessages ==
    /\ UNCHANGED <<dvars, xvars, wvars, uvars, avars>>
    /\ mcall = NoCall
    /\ \E contact_id \in ContactIds, dry_run \in BOOLEAN, env \in PreFlightEnvs :
          LET checks == pre_flight_check(env)
              call == [op |-> "hide_messages", contact_id |-> contact_id,
                       dry_run |-> dry_run, env |-> env, checks |-> checks,
                       before |-> Before]
          IN IF ~all_passed(checks)
             THEN /\ mcall' = Finished(call, PreFlightError(failed_checks(checks)), NoEffect)
                  /\ UNCHANGED <<source, storage, backups, last_backup_path, backup_verified>>
             ELSE IF ~dry_run /\ backup_needed(last_backup_path, backup_verified)
             THEN \E copied \in BOOLEAN, readable \in BOOLEAN :
                     /\ Len(backups) < MaxBackups
                     /\ IF ~copied
                        THEN /\ mcall' = Finished(call, BackupError("backup_failed"), NoEffect)
                             /\ UNCHANGED <<source, storage, backups, last_backup_path,
                                            backup_verified>>
                        ELSE /\ backups' = Append(backups, readable)
                             /\ last_backup_path' = Len(backups) + 1
                             /\ backup_verified' = readable
                             /\ IF ~readable
                                THEN /\ mcall' = Finished(call,
                                                   BackupError("backup_verification_failed"),
                                                   NoEffect)
                                     /\ UNCHANGED <<source, storage>>
                                ELSE HideBody(call)
             ELSE /\ UNCHANGED <<backups, last_backup_path, backup_verified>>
                  /\ HideBody(call)

\* _insert_messages_to_db: how many rows it counts, and whether they were committed
InsertOutcomes(n) ==
    {[count |-> n, committed |-> TRUE], [count |-> n, committed |-> FALSE],
     [count |-> 0, committed |-> FALSE]}
    \cup {[count |-> k, committed |-> FALSE] : k \in 1..(n - 1)}

\* restore_messages(contact_id, dry_run)
MRestoreMessages ==
    /\ UNCHANGED <<dvars, xvars, wvars, uvars, avars>>
    /\ mcall = NoCall
    /\ \E contact_id \in ContactIds, dry_run \in BOOLEAN, env \in PreFlightEnvs :
          LET checks == pre_flight_check(env)
              call == [op |-> "restore_messages", contact_id |-> contact_id,
                       dry_run |-> dry_run, env |-> env, checks |-> checks,
                       before |-> Before]
              messages == rows_of_contact(storage, contact_id)
          IN IF ~all_passed(checks)
             THEN /\ mcall' = Finished(call, PreFlightError(failed_checks(checks)), NoEffect)
                  /\ UNCHANGED <<source, storage>>
             ELSE IF messages = {}
             THEN /\ mcall' = Finished(call, NoExc, NoEffect)
                  /\ UNCHANGED <<source, storage>>
             ELSE IF dry_run
             THEN /\ mcall' = Finished(call, NoExc,
                                       [NoEffect EXCEPT !.count = Cardinality(messages)])
                  /\ UNCHANGED <<source, storage>>
             ELSE \E o \in InsertOutcomes(Cardinality(messages)), delete_done \in BOOLEAN :
                     LET inserted == IF o.committed THEN messages ELSE {}
                         removed == IF o.count > 0 /\ delete_done THEN messages ELSE {}
                     IN /\ source' = source \cup inserted
                        /\ storage' = storage \ removed
                        /\ mcall' = Finished(call, NoExc,
                                             [NoEffect EXCEPT !.inserted = inserted,
                                                              !.removed = removed,
                                                              !.count = o.count])
    /\ UNCHANGED <<backups, last_backup_path, backup_verified>>

\* the call is over
MReturn ==
    /\ UNCHANGED <<dvars, xvars, wvars, uvars, avars>>
    /\ mcall # NoCall
    /\ mcall' = NoCall
    /\ UNCHANGED <<source, storage, backups, last_backup_path, backup_verified>>

(***************************************************************************)
(* AuthManager (wechat_manager/core/auth.py).  The keyring holds two       *)
(* entries, the hex text of the hash and of the salt.  A scrypt output is  *)
(* a term of the password and the salt; the salt of os.urandom is any of   *)
(* Salts.                                                                  *)
(***************************************************************************)
NoEntry == [fn |-> "none"]

Passwords == {"", "p1", "p2"}

bytes_to_hex(b) == [fn |-> "hex", of |-> b]

hex_to_bytes(h) == h.of

\* _hash_password
hash_password(password, salt) == [fn |-> "scrypt", password |-> password, salt |-> salt]

AInit ==
    /\ stored_hash = NoEntry
    /\ stored_salt = NoEntry
    /\ established = NoEntry
    /\ acall = NoCall

\* a check that never finds a password
password_never_set(hash_entry) == FALSE

\* is_password_set
is_password_set(hash_entry) == hash_entry # NoEntry

\* verify_password
verify_password(password, hash_entry, salt_entry) ==
    IF hash_entry = NoEntry \/ salt_entry = NoEntry THEN FALSE
    ELSE LET salt == hex_to_bytes(salt_entry)
             hashed == hash_password(password, salt)
         IN bytes_to_hex(hashed) = hash_entry

AuthBefore ==
    [stored_hash |-> stored_hash, stored_salt |-> stored_salt, established |-> established]

\* set_password(password)
ASetPassword ==
    /\ UNCHANGED <<dvars, xvars, wvars, uvars, mvars>>
    /\ acall = NoCall
    /\ \E password \in Passwords, salt \in Salts :
          LET call == [op |-> "set_password", password |-> password, before |-> AuthBefore] IN
          IF is_password_set(stored_hash)
          THEN /\ acall' = call @@ [result |-> FALSE]
               /\ UNCHANGED <<stored_hash, stored_salt, established>>
          ELSE /\ stored_hash' = bytes_to_hex(hash_password(password, salt))
               /\ stored_salt' = bytes_to_hex(salt)
               /\ established' = [password |-> password]
               /\ acall' = call @@ [result |-> TRUE]

\* verify_password(password)
AVerifyPassword ==
    /\ UNCHANGED <<dvars, xvars, wvars, uvars, mvars>>
    /\ acall = NoCall
    /\ \E password \in Passwords :
          acall' = [op |-> "verify_password", password |-> password, before |-> AuthBefore,
                    result |-> verify_password(password, stored_hash, stored_salt)]
    /\ UNCHANGED <<stored_hash, stored_salt, established>>

\* change_password(old_password, new_password), with _clear_password and _force_set_password
AChangePassword ==
    /\ UNCHANGED <<dvars, xvars, wvars, uvars, mvars>>
    /\ acall = NoCall
    /\ \E old_password \in Passwords, new_password \in Passwords, salt \in Salts :
          LET call == [op |-> "change_password", password |-> old_password,
                       new_password |-> new_password, before |-> AuthBefore] IN
          IF ~verify_password(old_password, stored_hash, stored_salt)
          THEN /\ acall' = call @@ [result |-> FALSE]
               /\ UNCHANGED <<stored_hash, stored_salt, established>>
          ELSE /\ stored_hash' = bytes_to_hex(hash_password(new_password, salt))
               /\ stored_salt' = bytes_to_hex(salt)
               /\ established' = [password |-> new_password]
               /\ acall' = call @@ [result |-> TRUE]

\* the call is over
AReturn ==
    /\ UNCHANGED <<dvars, xvars, wvars, uvars, mvars>>
    /\ acall # NoCall
    /\ acall' = NoCall
    /\ UNCHANGED <<stored_hash, stored_salt, established>>

Init == DInit /\ XInit /\ WInit /\ UInit /\ MInit /\ AInit

Next ==
    \/ Call
    \/ CheckExists
    \/ ReadInput
    \/ Negotiate
    \/ DeriveAndVerify
    \/ AllocOutput
    \/ OpenOutput
    \/ FirstPage
    \/ NextPage
    \/ Return

vars == <<dvars, xvars, tvars>>

Spec == Init /\ [][Next]_vars

XNext ==
    \/ XCall
    \/ XCheckRunning
    \/ XEnumerate
    \/ XAttach
    \/ XBaseModule
    \/ XNamedModule
    \/ XResolved
    \/ XScan
    \/ XClose
    \/ XFallback
    \/ XFinalError

SpecKey == Init /\ [][XNext]_vars

WNext ==
    \/ WInitialize
    \/ WDeadline
    \/ WDrain
    \/ WPoll
    \/ WSleep
    \/ WCleanup

\* the call, once made, goes on executing
SpecPoll == Init /\ [][WNext]_vars /\ WF_vars(WNext)

UNext ==
    \/ UValidateKey
    \/ USetManualKey
    \/ UCandidateProfiles
    \/ UVerifyHmac
    \/ UVerifyAndDecrypt
    \/ USearchKeyPattern
    \/ UIsEncryptedDatabase
    \/ ULooksLikeKey
    \/ UReturn

SpecUnit == Init /\ [][UNext]_vars

SNext ==
    \/ UScanModule
    \/ UReturn

SpecScan == Init /\ [][SNext]_vars

MNext ==
    \/ MCreateBackup
    \/ MVerifyBackup
    \/ MHideMessages
    \/ MRestoreMessages
    \/ MReturn

SpecModeB == Init /\ [][MNext]_vars

ANext ==
    \/ ASetPassword
    \/ AVerifyPassword
    \/ AChangePassword
    \/ AReturn

SpecAuth == Init /\ [][ANext]_vars

(***************************************************************************)
(* Properties of decrypt_database and the negotiation, checked under Spec. *)
(***************************************************************************)
Started == pc # "idle"

Negotiated == pc \notin {"idle", "exists", "read", "negotiate"}

\* the bytes _select_profile is given by decrypt_database and by verify_key
Head2(f) == DataPrefix(f, PAGE_SIZE * 2)

\* C1 as stated: every page whose plaintext has been written was verified,
\* with its own page number, under the profile and keys that decrypted it.
C1_EveryEmittedPageVerified ==
    \A i \in 1..Len(emitted) :
        Verification(emitted[i].profile, emitted[i].keys.mac_key, emitted[i].pn)
            \in verified

\* C1, amended: every page is decrypted under the one selected profile and
\* its derived keys; pages 1 and 2 were verified with their own page
\* numbers under that profile and MAC key before being written, and pages
\* from the third on are written without any verification.
C1_FirstTwoPagesVerified ==
    \A i \in 1..Len(emitted) :
        /\ emitted[i].pn = i
        /\ emitted[i].profile = profile
        /\ emitted[i].keys = keys
        /\ (Verification(profile, keys.mac_key, i) \in verified) <=> (i <= 2)

C1_Witness ==
    /\ pc = "done"
    /\ Len(emitted) >= 3
    /\ args.file \in {BuildFile(p, KeyBytes(KEY_SIZE, 1), 0, MaxPages, 0, "tag3") :
                         p \in {PROFILE_V3, PROFILE_V4_DEFAULT}}

(***************************************************************************)
(* C2.  What _select_profile has to return, said without the loop: the     *)
(* candidates that authenticate the supplied bytes, and the least index    *)
(* among them.                                                             *)
(***************************************************************************)
Authenticates(key_hex, data, p) ==
    /\ fromhex_ok(key_hex)
    /\ LET mk == derive_mac_key(fromhex(key_hex), data.head.b, p) IN
       /\ verify_hmac_for_profile(mk, data.pages[1], 1, p)
       /\ DataLen(data) >= 2 * PAGE_SIZE
            => verify_hmac_for_profile(mk, data.pages[2], 2, p)

Matches(key_hex, data, cands) ==
    IF DataLen(data) < PAGE_SIZE THEN {}
    ELSE {i \in 1..Len(cands) : Authenticates(key_hex, data, cands[i])}

Least(S) == CHOOSE i \in S : \A j \in S : i <= j

\* C2: _select_profile returns the first candidate in registry order that
\* authenticates page 1 and, when 8192 bytes are supplied, page 2; it tries
\* no candidate after it; it returns None exactly when no candidate does
\* or fewer than 4096 bytes are supplied.
C2_FirstAuthenticatingCandidate ==
    Started /\ args.file # Missing =>
        LET data == Head2(args.file)
            cands == candidate_profiles(args.version_hint)
            m == Matches(args.key_hex, data, cands)
            sel == select_profile(args.key_hex, data, args.version_hint)
        IN /\ (m = {}) <=> (sel.profile = NoProfile)
           /\ DataLen(data) < PAGE_SIZE => sel.profile = NoProfile /\ sel.tried = <<>>
           /\ m # {} => /\ sel.profile = cands[Least(m)]
                         /\ sel.tried = [i \in 1..Least(m) |-> i]
           /\ m = {} /\ DataLen(data) >= PAGE_SIZE =>
                  sel.tried = [i \in 1..Len(cands) |-> i]
           /\ Negotiated => profile = sel.profile /\ tried = sel.tried

C2_Witness ==
    /\ pc = "derive"
    /\ Len(tried) > 2
    /\ DataLen(encrypted_data) >= 2 * PAGE_SIZE
    /\ profile = candidate_profiles(args.version_hint)[Len(tried)]

\* C3 as stated: whether negotiation succeeds, and the profile it selects,
\* is the same for version_hint 3, 4 and None.
C3_HintNeverMatters ==
    Started /\ args.file # Missing =>
        \A h1, h2 \in Hints :
            select_profile(args.key_hex, Head2(args.file), h1).profile
                = select_profile(args.key_hex, Head2(args.file), h2).profile

\* C3, amended: hints 4 and None always succeed or fail together and
\* select the same profile; hint 3 tries the legacy profile only, so it
\* succeeds exactly when hint None selects the legacy profile, then
\* selecting it too, and it rejects every file that authenticates only
\* under a version 4 profile; verify_key and decrypt_database agree with
\* the negotiation under the hint they are given.
C3_HintThreeLegacyOnly ==
    Started /\ args.file # Missing =>
        LET s(h) == select_profile(args.key_hex, Head2(args.file), h).profile IN
        /\ s(4) = s(0)
        /\ s(3) \in {NoProfile, PROFILE_V3}
        /\ (s(3) = PROFILE_V3) <=> (s(0) = PROFILE_V3)
        /\ \A h \in Hints :
              verify_key(args.key_hex, args.file, h) <=> (s(h) # NoProfile)
        /\ Negotiated => profile = s(args.version_hint)
        /\ pc = "done" /\ args.version_hint # 3 => s(4) = profile /\ s(0) = profile

C3_Witness ==
    /\ pc = "done"
    /\ args.version_hint = 4
    /\ profile.version = 4
    /\ select_profile(args.key_hex, Head2(args.file), 3).profile = NoProfile

(***************************************************************************)
(* C4.  A key string is well formed when it is 64 hexadecimal characters.  *)
(***************************************************************************)
WellFormedKey(key_hex) == key_hex.hex /\ key_hex.chars = 2 * KEY_SIZE

\* C4 as stated, without even asking for the message: a call with a key
\* that is not 64 hexadecimal characters, on a file that exists and holds a
\* page, ends in InvalidKeyError with no PBKDF2, HMAC or AES run made.
C4_MalformedKeyNoCrypto ==
    /\ Negotiated
    /\ ~WellFormedKey(args.key_hex)
    => /\ pc = "raised"
       /\ exc.type = "InvalidKeyError"
       /\ kdf_runs = 0 /\ hmac_runs = 0 /\ aes_runs = 0

(***************************************************************************)
(* C5.  The file system as the call found it.                              *)
(***************************************************************************)
FsAtCall ==
    [caller |-> IF args.out = "existing" THEN OldContent ELSE Absent, temp |-> Absent]

TooSmallError == Exception("DecryptionError", "file_too_small")

\* C5: a missing input raises FileNotFoundError; otherwise an input under
\* 4096 bytes raises the too-small DecryptionError; otherwise a key no
\* candidate authenticates raises InvalidKeyError; each of these errors is
\* raised in that case only, and with it neither the caller's path nor a
\* temporary file has been created, truncated or written.
C5_PreconditionOrder ==
    LET missing == args.file = Missing
        small == ~missing /\ DataLen(args.file) < PAGE_SIZE
        nomatch == /\ ~missing /\ ~small
                   /\ Matches(args.key_hex, Head2(args.file),
                              candidate_profiles(args.version_hint)) = {}
    IN /\ pc \notin {"idle", "exists"} /\ missing =>
              pc = "raised" /\ exc.type = "FileNotFoundError"
       /\ pc \notin {"idle", "exists", "read"} /\ small =>
              pc = "raised" /\ exc = TooSmallError
       /\ Negotiated /\ nomatch => pc = "raised" /\ exc.type = "InvalidKeyError"
       /\ exc.type = "FileNotFoundError" => missing
       /\ exc = TooSmallError => small
       /\ exc.type = "InvalidKeyError" => nomatch
       /\ exc.type \in {"FileNotFoundError", "InvalidKeyError"} \/ exc = TooSmallError =>
              /\ fs = FsAtCall
              /\ output_path = IF args.out = "none" THEN "none" ELSE "caller"
       /\ pc \in {"exists", "read", "negotiate", "derive", "alloc"} => fs = FsAtCall

C5_Witness ==
    /\ pc = "raised"
    /\ exc.type = "InvalidKeyError"
    /\ args.out = "existing"
    /\ fs.caller = OldContent
    /\ WellFormedKey(args.key_hex)
    /\ hmac_runs > 0

\* C6: with an accepted key, 4095 bytes are rejected as too small, and L >=
\* 4096 bytes give floor(L / 4096) pages in input order and an output of
\* 4096 * floor(L / 4096) bytes, a shorter last chunk being dropped without
\* an error.
C6_FullPagesOnly ==
    LET L == DataLen(args.file)
        n == L \div PAGE_SIZE
    IN /\ pc \in {"done", "raised"} /\ args.file # Missing /\ L < PAGE_SIZE =>
              pc = "raised" /\ exc = TooSmallError /\ emitted = <<>>
       /\ pc = "done" =>
              /\ L >= PAGE_SIZE
              /\ exc = NoExc
              /\ Len(emitted) = n
              /\ \A i \in 1..n : emitted[i].pn = i
              /\ SumLen(fs[result].data) = PAGE_SIZE * n
       /\ pc = "raised" /\ keys # NoKeys /\ aes_key_ok(keys.decrypt_key) =>
              exc.type = "InvalidKeyError"
       /\ Len(emitted) <= n

C6_Witness ==
    /\ pc = "done"
    /\ args.file.tail = PAGE_SIZE - 1
    /\ Len(emitted) = 2
    /\ SumLen(fs[result].data) = 2 * PAGE_SIZE

(***************************************************************************)
(* C7.  The output a successful call has to leave, from the file's pages.  *)
(***************************************************************************)
RECURSIVE ExpectedPages(_, _, _)
ExpectedPages(pages, prof, dk) ==
    IF pages = <<>> THEN <<>>
    ELSE LET pg == Head(pages)
             body == aes_decrypt(dk, pg.iv, pg.cipher, pg.len - prof.reserved_size)
             reserved == [from |-> pg.len - prof.reserved_size, cipher |-> NoBytes,
                          iv |-> pg.iv, tag |-> pg.tag, pad |-> pg.pad]
         IN << [kind |-> "body", v |-> body, n |-> pg.len - prof.reserved_size],
               [kind |-> "trailer", v |-> reserved, n |-> prof.reserved_size] >>
            \o ExpectedPages(Tail(pages), prof, dk)

\* C7: on success the output is the 16-byte SQLite header, then for each
\* full page in order its decrypted body followed by its own last
\* reserved_size bytes (IV, tag, padding) unchanged, reserved_size being the
\* selected profile's; is_encrypted_database reports it as not encrypted.
C7_OutputLayout ==
    pc = "done" =>
        /\ fs[result].exists
        /\ fs[result].data =
               << [kind |-> "header", v |-> SQLITE_FILE_HEADER, n |-> 16] >>
               \o ExpectedPages(args.file.pages, profile, keys.decrypt_key)
        /\ \A i \in 1..Len(args.file.pages) :
               profile.reserved_size = args.file.pages[i].R
        /\ ~is_encrypted_database(fs[result])
        /\ args.out = "none" => result = "temp" /\ fs.caller = Absent
        /\ args.out # "none" => result = "caller" /\ fs.temp = Absent

C7_Witness ==
    /\ pc = "done"
    /\ profile.reserved_size = V4_RESERVED_SIZE
    /\ Len(emitted) >= 2
    /\ args.out = "existing"
    /\ fs.caller.data[2].v.fn = "plain"

(***************************************************************************)
(* Properties of extract_key_from_memory, checked under SpecKey.           *)
(***************************************************************************)
Range(seq) == {seq[i] : i \in 1..Len(seq)}

OpenHandles == Range(opened) \ Range(close_log)

\* C8: with a validator (a database path that exists), the key returned,
\* by the scan or by the wx_key helper, is one the validator accepted: it
\* opens the database, and its bytes are among those passed by the
\* validator during the call.
C8_ReturnedKeyValidated ==
    /\ xpc = "returned" /\ xenv.db_path = "exists" =>
          /\ validate_cb
          /\ verify_key(xresult, KeyDatabase, 0)
          /\ \E b \in validated : bytes_hex(b) = xresult
    /\ xenv.db_path = "exists" =>
          \A b \in validated : verify_key(bytes_hex(b), KeyDatabase, 0)
    /\ xenv.db_path # "exists" => validated = {}

C8_Witness ==
    /\ xpc = "returned"
    /\ xenv.db_path = "exists"
    /\ "read_memory" \in xops
    /\ "helper" \notin xops
    /\ xresult = bytes_hex(GoodKey)

\* C9: every handle attached is closed once, before the function returns,
\* raises or attaches again: at most one handle is open, it is the current
\* one, and none is open when the next attach is due or on any exit.
C9_HandlesClosedOnce ==
    /\ \A i, j \in 1..Len(close_log) : close_log[i] = close_log[j] => i = j
    /\ Range(close_log) \subseteq Range(opened)
    /\ Cardinality(OpenHandles) <= 1
    /\ OpenHandles \subseteq {pm}
    /\ xpc \in {"base_module", "named_module", "scan", "close"} => OpenHandles = {pm}
    /\ xpc \in {"attach", "fallback", "final_error", "returned", "raised"} =>
          OpenHandles = {} /\ Len(close_log) = Len(opened)

C9_Witness ==
    /\ xpc = "returned"
    /\ Len(opened) >= 2
    /\ Len(close_log) = Len(opened)
    /\ last_error.type = "MemoryReadError"

(***************************************************************************)
(* C10.  No process of the table carries one of the client's names.        *)
(***************************************************************************)
NoWeChatProcess(table) ==
    \A i \in 1..Len(table) :
        Lower(table[i].name.text) \notin Range(WECHAT_PROCESS_STEMS_ORDERED)

\* C10: with no WeChat/Weixin process at the start the call raises
\* WeChatNotRunningError, not KeyExtractionError, having made no attach,
\* module lookup, memory read or helper call; nothing of the kind happens
\* before the process check, and the error is raised in that case only.
C10_NotRunningBeforeAttach ==
    /\ xpc \notin {"idle", "check_running"} /\ NoWeChatProcess(xenv.table) =>
          /\ xpc = "raised"
          /\ xexc.type = "WeChatNotRunningError"
          /\ xexc.type # KeyExtractionError("").type
          /\ xops = {}
          /\ opened = <<>>
    /\ xpc \in {"idle", "check_running", "enumerate"} => xops = {} /\ opened = <<>>
    /\ xops # {} => ~NoWeChatProcess(xenv.table)
    /\ xexc.type = "WeChatNotRunningError" => NoWeChatProcess(xenv.table)

C10_Witness ==
    /\ xpc = "raised"
    /\ xexc.type = "WeChatNotRunningError"
    /\ xenv.table # <<>>
    /\ xenv.db_path = "exists"

(***************************************************************************)
(* C11.  The candidates came from the process table (not from the name     *)
(* fallbacks), and the call ended in an error after the process check.     *)
(***************************************************************************)
RealCandidates == candidates # <<>> /\ \A i \in 1..Len(candidates) : candidates[i].pid # 0

FailedAfterCheck == xpc = "raised" /\ xexc.type = "KeyExtractionError"

UnknownModuleError == KeyExtractionError("no_known_module")

C12_AccessDeniedNamesRemedy ==
    FailedAfterCheck /\ last_error # NoExc /\ ContainsAccessDenied(last_error.msg) =>
        xexc = KeyExtractionError("access_denied_run_as_administrator")

(***************************************************************************)
(* Properties of _extract_key_with_wx_key, checked under SpecPoll.         *)
(***************************************************************************)
\* C13 as stated: once the hook is initialised the call terminates, by
\* returning or by raising.
C13_PollingTerminates ==
    (wpc = "deadline") ~> (wpc \in {"returned", "raised"})

\* C14 as stated: verify_key is False for a missing file, a file under 4096
\* bytes or a key that is not 64 hexadecimal characters; otherwise it is
\* True exactly when the negotiation over the first 8192 bytes selects a
\* profile, which is exactly when decrypt_database with the same key, file
\* and hint does not raise InvalidKeyError.
C14_VerifyKeyAgreesWithDecrypt ==
    Started =>
        LET v == verify_key(args.key_hex, args.file, args.version_hint)
            unfit == \/ args.file = Missing
                     \/ DataLen(args.file) < PAGE_SIZE
                     \/ ~WellFormedKey(args.key_hex)
        IN /\ unfit => ~v
           /\ ~unfit =>
                 v <=> (select_profile(args.key_hex, Head2(args.file),
                                       args.version_hint).profile # NoProfile)
           /\ ~unfit /\ pc \in {"done", "raised"} =>
                 v <=> (exc.type # "InvalidKeyError")

(***************************************************************************)
(* C15: validate_key and set_manual_key accept exactly the keys of 64      *)
(* hexadecimal characters, in any letter case; any other key (too short,   *)
(* too long, with a non-hex character, empty, None) makes them raise       *)
(* InvalidKeyError whose text states the required length of 64.            *)
(* set_manual_key leaves in the keyring the lower-cased key when it        *)
(* accepts, and the keyring as it found it when it rejects; validate_key   *)
(* never writes the keyring.                                               *)
(***************************************************************************)
SixtyFourHex(key) == key # NoneText /\ key.chars = 64 /\ key.hex

C15_KeyFormatAndKeyring ==
    fn \in {"validate_key", "set_manual_key"} =>
        LET key == fargs[1]
            before == fargs[2]
        IN /\ SixtyFourHex(key) => ~fret.raised /\ fret.value = TRUE
           /\ ~SixtyFourHex(key) =>
                 /\ fret.raised
                 /\ fret.exc.type = "InvalidKeyError"
                 /\ fret.exc.msg.required = 64
                 /\ keyring = before
           /\ fn = "validate_key" => keyring = before
           /\ fn = "set_manual_key" /\ SixtyFourHex(key) =>
                 keyring = Text(key.chars, TRUE, "lower", key.id)

C15_Witness ==
    /\ fn = "set_manual_key"
    /\ fargs[1] = Text(64, TRUE, "upper", 2)
    /\ fargs[2] = Text(64, TRUE, "lower", 1)
    /\ ~fret.raised
    /\ keyring = Text(64, TRUE, "lower", 2)

(***************************************************************************)
(* C16: the candidate list for hint 3 is the V3 profile alone; for hint 4  *)
(* it is the V3 profile, then the canonical V4 profile, then further V4    *)
(* variations, so that each of the eight combinations of page-number byte  *)
(* order, MAC-key mode and KDF mode occurs exactly once among the V4       *)
(* entries; for no hint or any other hint it is the hint-3 list followed   *)
(* by the hint-4 list.                                                     *)
(***************************************************************************)
V4Variation(e, m, k) ==
    [PROFILE_V4_DEFAULT EXCEPT !.page_num_endian = e, !.mac_key_mode = m, !.kdf_mode = k]

HintFourShape(l) ==
    /\ Len(l) = 9
    /\ l[1] = PROFILE_V3
    /\ l[2] = PROFILE_V4_DEFAULT
    /\ \A e \in {"le", "be"}, m \in {"passphrase", "enc_key_iter2"}, k \in {"pbkdf2", "raw"} :
          Cardinality({i \in 2..9 : l[i] = V4Variation(e, m, k)}) = 1

C16_CandidateOrdering ==
    fn = "candidate_profiles" =>
        LET version_hint == fargs[1] IN
        /\ version_hint = 3 => fret = <<PROFILE_V3>>
        /\ version_hint = 4 => HintFourShape(fret)
        /\ version_hint \notin {3, 4} =>
              /\ Len(fret) = 10
              /\ fret[1] = PROFILE_V3
              /\ HintFourShape(Tail(fret))

C16_Witness ==
    /\ fn = "candidate_profiles"
    /\ fargs[1] = 5
    /\ Len(fret) = 10
    /\ fret[10] = V4Variation("le", "enc_key_iter2", "raw")

(***************************************************************************)
(* C17: a page written for page number n under a profile and MAC key       *)
(* verifies under that page number; after a change of any bit of the       *)
(* ciphertext, the IV or the tag, or under any other page number, it does  *)
(* not verify; a change in the padding after the tag makes no difference   *)
(* to the result.                                                          *)
(***************************************************************************)
C17_TamperDetected ==
    fn = "verify_hmac_for_profile" =>
        /\ fargs.where \in {"cipher", "iv", "tag"} => ~fret
        /\ fargs.page_number # fargs.pn => ~fret
        /\ fargs.where \in {"nowhere", "pad"} => (fret <=> fargs.page_number = fargs.pn)

C17_Witness ==
    /\ fn = "verify_hmac_for_profile"
    /\ fargs.where = "iv"
    /\ fargs.page_number = fargs.pn
    /\ fargs.profile = PROFILE_V4_DEFAULT
    /\ ~fret

(***************************************************************************)
(* C18: for each profile of the registry, each 32-byte key, each salt and  *)
(* both page lengths (4096 and 4080), a page made by encrypting a          *)
(* plaintext body under the profile's derived decryption key and an IV,    *)
(* followed by the IV, the profile's tag over body, IV and page number,    *)
(* and padding, passes verification and decrypts to that plaintext body.   *)
(***************************************************************************)
C18_PageRoundTrip ==
    fn = "verify_and_decrypt_page" =>
        /\ fret.verified
        /\ fret.decrypted.exc = NoExc
        /\ fret.decrypted.plain =
              [fn |-> "plain", id |-> fargs.pn, n |-> fargs.len - fargs.profile.reserved_size]

C18_Witness ==
    /\ fn = "verify_and_decrypt_page"
    /\ fargs.profile = V4Variation("le", "enc_key_iter2", "raw")
    /\ fargs.len = 4080
    /\ fargs.salt = 1
    /\ fret.verified
    /\ fret.decrypted.plain.fn = "plain"

(***************************************************************************)
(* C19: every address the scan reads key bytes from is a slot value        *)
(* strictly between 0x10000 and 0x7FFFFFFFFFFF; when every slot of the     *)
(* module is zero, unreadable or outside that range, the scan reads no     *)
(* key bytes and reports no match, whatever the memory holds.              *)
(***************************************************************************)
Plausible(a) ==
    /\ a.hi > 0 \/ (a.hi = 0 /\ a.lo > 65536)
    /\ a.hi < 8388607 \/ (a.hi = 8388607 /\ a.lo < 16777215)

C19_OnlyPlausiblePointersFollowed ==
    fn = "search_key_pattern" =>
        LET slots == fargs.image.slots IN
        /\ \A a \in fret.reads :
              Plausible(a) /\ \E i \in 1..Len(slots) : slots[i].ok /\ slots[i].v = a
        /\ fret.addr # NullPtr => fret.addr \in fret.reads
        /\ (\A i \in 1..Len(slots) : ~slots[i].ok \/ ~Plausible(slots[i].v)) =>
              fret.addr = NullPtr /\ fret.reads = {}

C19_Witness ==
    /\ fn = "search_key_pattern"
    /\ fargs.image.slots = <<Slot(PTR_LOW), Slot(PTR_HIGH)>>
    /\ fargs.image.heap[PTR_LOW] = GoodKey
    /\ ~fargs.has_validator
    /\ fret.addr = NullPtr

(***************************************************************************)
(* C20: is_encrypted_database answers from the first 16 bytes of the file  *)
(* alone: True exactly when they are not the 16-byte SQLite header (so     *)
(* True for an empty file and for one shorter than 16 bytes), False when   *)
(* they are the header, whatever follows them; and False, not an           *)
(* exception, when the file cannot be opened.                              *)
(***************************************************************************)
StartsWithHeader(start) ==
    start # <<>> /\ start[1].n = 16 /\ start[1].v = [kind |-> "sqlite", b |-> 83]

C20_HeaderAloneDecides ==
    fn = "is_encrypted_database" =>
        /\ fret \in BOOLEAN
        /\ ~fargs.openable => fret = FALSE
        /\ fargs.openable => (fret <=> ~StartsWithHeader(fargs.start))

C20_Witness ==
    /\ fn = "is_encrypted_database"
    /\ fargs.openable
    /\ fargs.start = << Piece("header", SQLITE_FILE_HEADER, 15) >>
    /\ fret = TRUE

(***************************************************************************)
(* C21: every profile in the candidate list of any version hint has a      *)
(* reserved region larger than the 16-byte IV, a tag size equal to the     *)
(* digest width of its HMAC hash (20 for SHA-1, 64 for SHA-512), and room  *)
(* in the reserved region for the IV and the tag.                          *)
(***************************************************************************)
ProfileInvariant(p) ==
    /\ p.reserved_size > 16
    /\ p.hmac_hash \in {"sha1", "sha512"}
    /\ p.hmac_size = (IF p.hmac_hash = "sha1" THEN 20 ELSE 64)
    /\ 16 + p.hmac_size <= p.reserved_size

C21_RegistryProfilesWellFormed ==
    fn = "candidate_profiles" =>
        \A i \in 1..Len(fret) : ProfileInvariant(fret[i])

C21_Witness ==
    /\ fn = "candidate_profiles"
    /\ fargs[1] = 0
    /\ \E i \in 1..Len(fret) : fret[i].version = 4 /\ fret[i].reserved_size = 80
    /\ \E i \in 1..Len(fret) : fret[i].version = 3 /\ fret[i].hmac_size = 20

(***************************************************************************)
(* C22: whatever create_backup, verify_backup and hide_messages calls came *)
(* before, a hide_messages call that is not a dry run has deleted messages *)
(* from the source only if a backup exists, is the last one made, and its  *)
(* verification succeeded; when the backup the call makes does not verify, *)
(* the call raises BackupError and neither stores nor deletes anything; a  *)
(* dry run makes no backup and deletes nothing.                            *)
(***************************************************************************)
HideCall == mcall.op = "hide_messages"

C22_BackupBeforeDeletion ==
    HideCall =>
        /\ mcall.deleted # {} =>
              /\ ~mcall.dry_run
              /\ last_backup_path \in 1..Len(backups)
              /\ backups[last_backup_path]
              /\ backup_verified
        /\ (Len(backups) > Len(mcall.before.backups) /\ ~backups[Len(backups)]) =>
              /\ mcall.exc.type = "BackupError"
              /\ mcall.extracted = {} /\ mcall.deleted = {}
              /\ source = mcall.before.source /\ storage = mcall.before.storage
        /\ mcall.dry_run =>
              /\ backups = mcall.before.backups
              /\ mcall.deleted = {}
              /\ source = mcall.before.source

C22_Witness ==
    /\ HideCall
    /\ ~mcall.dry_run
    /\ mcall.before.last_backup_path = 1
    /\ ~mcall.before.backup_verified
    /\ last_backup_path = 2
    /\ mcall.deleted = {Message("a", 1, 1), Message("a", 1, 2), Message("a", 3, 3)}

(***************************************************************************)
(* C23: when WeChat is running, or the backup directory cannot be written, *)
(* or the databases cannot be opened, or the handler is on the version 4   *)
(* layout, hide_messages and restore_messages raise PreFlightError naming  *)
(* exactly the checks that failed, and make no backup, store, delete or    *)
(* insert no message and leave the encrypted storage as it was.            *)
(***************************************************************************)
PreFlightFailures(env) ==
    (IF env.version_hint = 4 THEN {"mode_b_supported"} ELSE {})
    \cup (IF NoWeChatProcess(env.table) THEN {} ELSE {"wechat_closed"})
    \cup (IF env.writable THEN {} ELSE {"backup_dir_writable"})
    \cup (IF env.accessible THEN {} ELSE {"db_accessible"})

C23_NothingDoneWhenPreFlightFails ==
    (mcall.op \in {"hide_messages", "restore_messages"}
        /\ PreFlightFailures(mcall.env) # {}) =>
        /\ mcall.exc.type = "PreFlightError"
        /\ Range(mcall.exc.msg) = PreFlightFailures(mcall.env)
        /\ source = mcall.before.source
        /\ storage = mcall.before.storage
        /\ backups = mcall.before.backups
        /\ last_backup_path = mcall.before.last_backup_path
        /\ backup_verified = mcall.before.backup_verified
        /\ mcall.extracted = {} /\ mcall.deleted = {}
        /\ mcall.inserted = {} /\ mcall.removed = {}

C23_Witness ==
    /\ mcall.op = "hide_messages"
    /\ ~mcall.dry_run
    /\ ~NoWeChatProcess(mcall.env.table)
    /\ mcall.env.version_hint = 3 /\ mcall.env.writable /\ mcall.env.accessible
    /\ mcall.exc = PreFlightError(<<"wechat_closed">>)
    /\ mcall.before.storage # {}
    /\ mcall.before.source # {}

(***************************************************************************)
(* C29: every message a hide_messages call that is not a dry run deleted   *)
(* from the source was stored in the encrypted storage by that call, for   *)
(* every contact and message type.                                         *)
(***************************************************************************)
C29_DeletedWereStored ==
    (HideCall /\ ~mcall.dry_run /\ mcall.exc = NoExc) =>
        /\ mcall.deleted \subseteq mcall.extracted
        /\ mcall.deleted \subseteq storage

(***************************************************************************)
(* C30: a restore_messages call that is not a dry run removes a contact's  *)
(* messages from the encrypted storage only if all of them were inserted   *)
(* into the source and committed; when the insertion fails part-way or     *)
(* inserts nothing the storage keeps them.                                 *)
(***************************************************************************)
C30_RemovedWereRestored ==
    (mcall.op = "restore_messages" /\ mcall.exc = NoExc) =>
        /\ mcall.removed \subseteq mcall.inserted
        /\ mcall.removed \subseteq source
        /\ mcall.inserted = {} => storage = mcall.before.storage

(***************************************************************************)
(* C24: the application password is a state machine.  set_password        *)
(* succeeds exactly when no password is established, and a refused call    *)
(* changes nothing; change_password succeeds exactly when it is given the  *)
(* established password, a refused call leaves the stored hash and salt    *)
(* as they were, and an accepted one establishes the new password;         *)
(* verify_password answers TRUE exactly for the password established by    *)
(* the latest successful set or change, and FALSE when there is none.      *)
(***************************************************************************)
Established(p) == [password |-> p]

KeyringUnchanged ==
    /\ stored_hash = acall.before.stored_hash
    /\ stored_salt = acall.before.stored_salt
    /\ established = acall.before.established

C24_PasswordStateMachine ==
    /\ acall.op = "set_password" =>
          /\ acall.result = (acall.before.established = NoEntry)
          /\ acall.result => established = Established(acall.password)
          /\ ~acall.result => KeyringUnchanged
    /\ acall.op = "change_password" =>
          /\ acall.result = (acall.before.established = Established(acall.password))
          /\ acall.result => established = Established(acall.new_password)
          /\ ~acall.result => KeyringUnchanged
    /\ acall.op = "verify_password" =>
          /\ acall.result = (established = Established(acall.password))
          /\ KeyringUnchanged

\* a password was changed to a different one with the established password
C24_Witness ==
    /\ acall.op = "change_password"
    /\ acall.result
    /\ acall.password # acall.new_password
    /\ acall.before.established = Established(acall.password)
    /\ stored_hash # acall.before.stored_hash

(***************************************************************************)
(* C28: looks_like_key accepts a buffer exactly when it is 32 bytes long,  *)
(* is not all zero, has at most 4 zero bytes when a validator is supplied  *)
(* and at most 8 otherwise, holds at least 16 distinct byte values and the *)
(* validator, if supplied, accepts it; and the validator is called only on *)
(* buffers that passed those heuristics.                                   *)
(***************************************************************************)
PassesHeuristics(b, has_validator) ==
    /\ b.len = 32
    /\ b.zeros < b.len
    /\ b.zeros <= (IF has_validator THEN 4 ELSE 8)
    /\ b.distinct >= 16

C28_FilterAcceptsExactly ==
    fn = "looks_like_key" =>
        /\ fret.result =
              (/\ PassesHeuristics(fargs.key_bytes, fargs.has_validator)
               /\ fargs.has_validator => validate_key_bytes(fargs.key_bytes, KeyDatabase))
        /\ fret.validated => PassesHeuristics(fargs.key_bytes, fargs.has_validator)
        /\ fret.validated => fargs.has_validator

\* a buffer with five zero bytes that holds the database's key is refused
\* unasked when there is a validator
C28_Witness ==
    /\ fn = "looks_like_key"
    /\ fargs.has_validator
    /\ fargs.key_bytes.len = 32
    /\ fargs.key_bytes.zeros = 5
    /\ fargs.key_bytes.distinct >= 16
    /\ validate_key_bytes(fargs.key_bytes, KeyDatabase)
    /\ ~fret.result
    /\ ~fret.validated

(***************************************************************************)
(* The scan as the call left it, and what the memory it read holds.        *)
(***************************************************************************)
ScanDone == fn = "scan_module"

\* offsets of the bytes that a read of signature k's pass returned
ReadBySig(k) ==
    UNION { fret.chunks[i].off .. (fret.chunks[i].off + fret.chunks[i].n - 1) :
               i \in { j \in 1..Len(fret.chunks) : fret.chunks[j].sig = k /\ fret.chunks[j].ok } }

\* addresses where signature k stands in memory that the pass read
Occurrences(k) ==
    LET pat == SEARCH_PATTERNS[k] IN
    { MODULE_BASE + at : at \in { a \in 0..(fargs.image.size - Len(pat)) :
         /\ \A j \in 1..Len(pat) : fargs.image.bytes[a + j] = pat[j]
         /\ a..(a + Len(pat) - 1) \subseteq ReadBySig(k) } }

Detected(k) == { m.addr : m \in { n \in Range(fret.matches) : n.sig = k } }

\* the match the scan was at when it returned
LastMatch == fret.matches[Len(fret.matches)]

(***************************************************************************)
(* C26: for each signature, every occurrence that lies in memory the scan  *)
(* read is detected, once and at its true address, whether it lies inside  *)
(* one chunk or across two (of the full or of the retry size); a scan that *)
(* returns a key stops at the occurrence that led to it.                   *)
(***************************************************************************)
C26_EveryOccurrenceDetectedOnce ==
    ScanDone =>
        /\ \A i, j \in 1..Len(fret.matches) :
              (i < j /\ fret.matches[i].sig = fret.matches[j].sig)
                 => fret.matches[i].addr < fret.matches[j].addr
        /\ \A k \in 1..Len(SEARCH_PATTERNS) :
              /\ Detected(k) \subseteq Occurrences(k)
              /\ \A a \in Occurrences(k) :
                    \/ a \in Detected(k)
                    \/ fret.found /\ LastMatch.sig = k /\ a > LastMatch.addr

\* a signature that begins in one chunk and ends in the next was detected
C26_Witness ==
    /\ ScanDone
    /\ \E i \in 1..Len(fret.matches) :
          /\ fret.matches[i].off > 0
          /\ fret.matches[i].addr < MODULE_BASE + fret.matches[i].off
          /\ fret.matches[i].addr \in Occurrences(fret.matches[i].sig)

(***************************************************************************)
(* C27: a read that fails (of a chunk, of its smaller retry, of a pointer  *)
(* slot, of the bytes a pointer leads to) neither raises out of the scan   *)
(* nor ends it.  Each pass goes through the module from offset 0 to its    *)
(* end, every read starting where the last one stopped or, for a retry,    *)
(* where the failed one started; the index of the match rises within a     *)
(* chunk; the slots of a window are visited one step after the other up to *)
(* the window's end; and a scan that no candidate survives examines every  *)
(* signature and returns no address.                                       *)
(***************************************************************************)
ChunkAt(i) == fret.chunks[i]

SlotAt(i) == fret.slots[i]

\* the attempt i is the last of its pass
LastOfPass(i) == i = Len(fret.chunks) \/ ChunkAt(i + 1).sig # ChunkAt(i).sig

\* the attempt i is the first of its pass
FirstOfPass(i) == i = 1 \/ ChunkAt(i - 1).sig # ChunkAt(i).sig

\* the slots a window holds for a step
WindowSlots(match, step) ==
    LET search_start == IF match - ScanWindow > MODULE_BASE THEN match - ScanWindow
                        ELSE MODULE_BASE
        search_end == IF match + ScanWindow < MODULE_BASE + fargs.image.size
                      THEN match + ScanWindow ELSE MODULE_BASE + fargs.image.size
    IN { a \in search_start..search_end : a % step = 0 /\ a + step <= search_end }

C27_SoftFailuresNeverEndScan ==
    ScanDone =>
        /\ ~fret.raised
        /\ \A i \in 1..Len(fret.chunks) :
              /\ ChunkAt(i).n > 0
              /\ FirstOfPass(i) => ChunkAt(i).off = 0 /\ ~ChunkAt(i).retry
              /\ (~FirstOfPass(i) /\ ChunkAt(i).retry) =>
                    /\ ~ChunkAt(i - 1).ok /\ ~ChunkAt(i - 1).retry
                    /\ ChunkAt(i).off = ChunkAt(i - 1).off
              /\ (~FirstOfPass(i) /\ ~ChunkAt(i).retry) =>
                    /\ ChunkAt(i - 1).ok \/ ChunkAt(i - 1).retry
                    /\ ChunkAt(i).off = ChunkAt(i - 1).off + ChunkAt(i - 1).n
              /\ (LastOfPass(i) /\ ~fret.found) =>
                    /\ ChunkAt(i).ok \/ ChunkAt(i).retry
                    /\ ChunkAt(i).off + ChunkAt(i).n = fargs.image.size
        /\ \A i \in 1..(Len(fret.matches) - 1) :
              (fret.matches[i].sig = fret.matches[i + 1].sig
                  /\ fret.matches[i].off = fret.matches[i + 1].off)
                 => fret.matches[i].idx < fret.matches[i + 1].idx
        /\ \A i \in 1..(Len(fret.slots) - 1) :
              (SlotAt(i).sig = SlotAt(i + 1).sig /\ SlotAt(i).match = SlotAt(i + 1).match
                  /\ SlotAt(i).step = SlotAt(i + 1).step)
                 => SlotAt(i + 1).addr = SlotAt(i).addr + SlotAt(i).step
        /\ ~fret.found =>
              /\ fret.addr = NullPtr
              /\ fargs.image.size > 0 =>
                    { ChunkAt(i).sig : i \in 1..Len(fret.chunks) } = 1..Len(SEARCH_PATTERNS)
              /\ \A i \in 1..Len(fret.matches) : \A step \in {8, 4} :
                    WindowSlots(fret.matches[i].addr, step) =
                       { s.addr : s \in { t \in Range(fret.slots) :
                                             /\ t.sig = fret.matches[i].sig
                                             /\ t.match = fret.matches[i].addr
                                             /\ t.step = step } }

\* a chunk and its retry could not be read, a slot could not be read, the
\* bytes a pointer led to could not be read, and the scan went on to the end
C27_Witness ==
    /\ ScanDone
    /\ ~fret.found
    /\ \E i \in 1..Len(fret.chunks) : ChunkAt(i).retry /\ ~ChunkAt(i).ok /\ ~LastOfPass(i)
    /\ \E i \in 1..(Len(fret.slots) - 1) : ~SlotAt(i).ok /\ SlotAt(i + 1).ok
    /\ \E i \in 1..(Len(fret.reads) - 1) :
          /\ fret.reads[i].op = "deref"
          /\ ~read_bytes(fargs.image.heap, fret.reads[i].at).ok
          /\ fret.reads[i + 1].op = "slot"

(***************************************************************************)
(* C25: the scan is an early-exit search.  Its candidates are the pointer  *)
(* slots of the windows around the occurrences of the signatures, in this  *)
(* order: by signature as listed, by address of the occurrence, the        *)
(* 8-byte-aligned slots of a window before its 4-byte-aligned ones, by     *)
(* address of the slot.  The scan visits the candidates in that order, up  *)
(* to the first one that survives the filters, returns the address that    *)
(* one points to, and makes no read of memory and no call of the validator *)
(* after the one that accepted it; with no survivor it visits them all.    *)
(***************************************************************************)
Candidate(k, match, step, addr) == [sig |-> k, match |-> match, step |-> step, addr |-> addr]

AllCandidates ==
    UNION { UNION { UNION { { Candidate(k, m, step, a) : a \in WindowSlots(m, step) } :
                               step \in {8, 4} } :
                       m \in Occurrences(k) } :
               k \in 1..Len(SEARCH_PATTERNS) }

PointerAt(c) == read_slot(fargs.image, c.addr, c.step)

Survives(c) ==
    LET slot == PointerAt(c)
        key_bytes == read_bytes(fargs.image.heap, slot.v)
    IN /\ slot.ok
       /\ slot.v.hi > 0 \/ (slot.v.hi = 0 /\ slot.v.lo > 65536)
       /\ slot.v.hi < 8388607 \/ (slot.v.hi = 8388607 /\ slot.v.lo < 16777215)
       /\ key_bytes.ok
       /\ looks_like_key(key_bytes, fargs.has_validator, KeyDatabase)

Survivors == { c \in AllCandidates : Survives(c) }

SearchedBefore(c, d) ==
    \/ c.sig < d.sig
    \/ c.sig = d.sig /\ c.match < d.match
    \/ c.sig = d.sig /\ c.match = d.match /\ c.step > d.step
    \/ c.sig = d.sig /\ c.match = d.match /\ c.step = d.step /\ c.addr < d.addr

FirstSurvivor == CHOOSE c \in Survivors : \A d \in Survivors \ {c} : SearchedBefore(c, d)

Visited(i) == Candidate(SlotAt(i).sig, SlotAt(i).match, SlotAt(i).step, SlotAt(i).addr)

C25_FirstSurvivorReturnedAtOnce ==
    ScanDone =>
        /\ \A i \in 1..(Len(fret.slots) - 1) : SearchedBefore(Visited(i), Visited(i + 1))
        /\ fret.found = (Survivors # {})
        /\ ~fret.found => { Visited(i) : i \in 1..Len(fret.slots) } = AllCandidates
        /\ fret.found =>
              /\ fret.addr = PointerAt(FirstSurvivor).v
              /\ { Visited(i) : i \in 1..Len(fret.slots) } =
                    { c \in AllCandidates : c = FirstSurvivor \/ SearchedBefore(c, FirstSurvivor) }
              /\ Visited(Len(fret.slots)) = FirstSurvivor
              /\ fret.reads[Len(fret.reads)].at = fret.addr
              /\ fret.reads[Len(fret.reads)].op =
                    (IF fargs.has_validator THEN "validate" ELSE "deref")

\* two slots of a window lead to keys; the one returned is the 8-byte slot,
\* though the 4-byte slot has the lower address
C25_Witness ==
    /\ ScanDone
    /\ fret.found
    /\ FirstSurvivor.step = 8
    /\ \E d \in Survivors :
          /\ d.step = 4
          /\ d.match = FirstSurvivor.match
          /\ d.addr < FirstSurvivor.addr
          /\ PointerAt(d).v # fret.addr

====
